---- MODULE Spec2Model ----
(***************************************************************************)
(* A model of pylox, a tree-walking interpreter for Lox:                   *)
(*   scanner -> parser -> (resolver) -> interpreter, plus the runtime      *)
(*   object model (Environment, LoxFunction, LoxClass, LoxInstance).       *)
(*                                                                         *)
(* Conventions                                                             *)
(*  - A Python str is a sequence of one-character strings.                 *)
(*  - Indices into the source and the token list are 0-based as in the     *)
(*    code; element i of a Python list l is l[i + 1] here.                 *)
(*  - A Python float is an integer count of 1/Scale units.                 *)
(*  - An exception that no handler of the program catches (TypeError,      *)
(*    KeyError, the Return signal at top level) is the outcome "crash".    *)
(*  - Diagnostic messages are the code's, without their backquotes.        *)
(*  - Interpreter and VariableResolver are modelled as the objects their   *)
(*    __post_init__ builds; the methods below are their method bodies.     *)
(***************************************************************************)
EXTENDS Integers, Sequences, FiniteSets, TLC

(* Only({e : x \in {v}}) is e with x naming the value v: v is computed     *)
(* once, however often e uses it.                                          *)
Only(S) == CHOOSE v \in S : TRUE

(***************************************************************************)
(* Characters                                                              *)
(***************************************************************************)
NUL == "NUL"

Ascii ==
  << " ", "!", "\"", "#", "$", "%", "&", "'", "(", ")", "*", "+", ",", "-",
     ".", "/", "0", "1", "2", "3", "4", "5", "6", "7", "8", "9", ":", ";",
     "<", "=", ">", "?", "@", "A", "B", "C", "D", "E", "F", "G", "H", "I",
     "J", "K", "L", "M", "N", "O", "P", "Q", "R", "S", "T", "U", "V", "W",
     "X", "Y", "Z", "[", "\\", "]", "^", "_", "BACKTICK", "a", "b", "c", "d", "e",
     "f", "g", "h", "i", "j", "k", "l", "m", "n", "o", "p", "q", "r", "s",
     "t", "u", "v", "w", "x", "y", "z", "{", "|", "}", "~" >>

Ord(c) ==
  IF c = NUL THEN 0
  ELSE IF c = "\t" THEN 9
  ELSE IF c = "\n" THEN 10
  ELSE IF c = "\r" THEN 13
  ELSE 31 + (CHOOSE i \in 1..Len(Ascii) : Ascii[i] = c)

None == [t |-> "None"]
Num(n) == [t |-> "float", n |-> n]
Str(s) == [t |-> "str", s |-> s]
Bool(b) == [t |-> "bool", b |-> b]

Scale == 10 * 10 * 10

(***************************************************************************)
(* scanner.py                                                              *)
(***************************************************************************)
Keywords ==
  { [text |-> <<"a","n","d">>, type |-> "AND"],
    [text |-> <<"c","l","a","s","s">>, type |-> "CLASS"],
    [text |-> <<"e","l","s","e">>, type |-> "ELSE"],
    [text |-> <<"f","a","l","s","e">>, type |-> "FALSE"],
    [text |-> <<"f","u","n">>, type |-> "FUN"],
    [text |-> <<"f","o","r">>, type |-> "FOR"],
    [text |-> <<"i","f">>, type |-> "IF"],
    [text |-> <<"n","i","l">>, type |-> "NIL"],
    [text |-> <<"o","r">>, type |-> "OR"],
    [text |-> <<"p","r","i","n","t">>, type |-> "PRINT"],
    [text |-> <<"r","e","t","u","r","n">>, type |-> "RETURN"],
    [text |-> <<"s","u","p","e","r">>, type |-> "SUPER"],
    [text |-> <<"t","h","i","s">>, type |-> "THIS"],
    [text |-> <<"t","r","u","e">>, type |-> "TRUE"],
    [text |-> <<"v","a","r">>, type |-> "VAR"],
    [text |-> <<"w","h","i","l","e">>, type |-> "WHILE"] }

Token(type, lexeme, literal, line) ==
  [type |-> type, lexeme |-> lexeme, literal |-> literal, line |-> line]

is_digit(c) == Ord("0") <= Ord(c) /\ Ord(c) <= Ord("9")

is_alpha(c) ==
  \/ (Ord(c) >= Ord("a") /\ Ord(c) <= Ord("z"))
  \/ (Ord(c) > Ord("A") /\ Ord(c) <= Ord("Z"))
  \/ c = "_"

is_alphanumeric(c) == is_alpha(c) \/ is_digit(c)

(* The error sink: Lox.report prints one diagnostic and sets has_error.   *)
(* A formatted string is the tuple of its pieces.                         *)
NewLox == [has_error |-> FALSE, has_runtime_error |-> FALSE, diags |-> << >>]

report(lox, line, where, message) ==
  [lox EXCEPT !.diags = Append(@, [line |-> line, where |-> where,
                                   message |-> message]),
              !.has_error = TRUE]

error(lox, line, message) == report(lox, line, << >>, message)

token_error(lox, token, message) ==
  IF token.type = "EOF" THEN report(lox, token.line, << " at end" >>, message)
  ELSE report(lox, token.line, << " at '", token.lexeme, "'" >>, message)

runtime_error(lox, err) ==
  [lox EXCEPT !.diags = Append(@, [line |-> err.token.line,
                                   message |-> err.message]),
              !.has_runtime_error = TRUE]

(* A Scanner object, the tokens it has yielded, and the sink it reports to *)
NewScanner(lox, source) ==
  [source |-> source, start |-> 0, current |-> 0, line |-> 1,
   tokens |-> << >>, lox |-> lox]

is_at_end(sc) == sc.current >= Len(sc.source)

_make_token(sc, type, literal) ==
  Token(type, SubSeq(sc.source, sc.start + 1, sc.current), literal, sc.line)

yield(sc, tok) == [sc EXCEPT !.tokens = Append(@, tok)]

advance(sc) == [sc EXCEPT !.current = @ + 1]

match(sc, expected) ==
  ~is_at_end(sc) /\ sc.source[sc.current + 1] = expected

peek(sc) == IF is_at_end(sc) THEN NUL ELSE sc.source[sc.current + 1]

peek_next(sc) ==
  IF sc.current + 1 >= Len(sc.source) THEN NUL ELSE sc.source[sc.current + 2]

RECURSIVE string_loop(_, _)
string_loop(sc, quote_char) ==
  IF peek(sc) # quote_char /\ ~is_at_end(sc)
  THEN string_loop(advance(IF peek(sc) = "\n"
                           THEN [sc EXCEPT !.line = @ + 1] ELSE sc),
                   quote_char)
  ELSE sc

string(sc0, quote_char) ==
  LET sc == string_loop(sc0, quote_char) IN
  IF is_at_end(sc)
  THEN LET s1 == [sc EXCEPT !.lox = error(@, sc.line, << "Unterminated string." >>)]
       IN yield(s1, _make_token(s1, "STRING",
                       Str(SubSeq(s1.source, s1.start + 2, s1.current))))
  ELSE LET s1 == advance(sc)
       IN yield(s1, _make_token(s1, "STRING",
                       Str(SubSeq(s1.source, s1.start + 2, s1.current - 1))))

RECURSIVE digits_loop(_)
digits_loop(sc) ==
  IF is_digit(peek(sc)) THEN digits_loop(advance(sc)) ELSE sc

RECURSIVE Pow10(_)
Pow10(k) == IF k = 0 THEN 1 ELSE 10 * Pow10(k - 1)

RECURSIVE DigitsValue(_)
DigitsValue(ds) ==
  IF ds = << >> THEN 0
  ELSE 10 * DigitsValue(SubSeq(ds, 1, Len(ds) - 1))
       + (Ord(ds[Len(ds)]) - Ord("0"))

(* float(text) for text of the form DIGIT+ or DIGIT+ '.' DIGIT+ *)
float(text) ==
  LET dots == {i \in 1..Len(text) : text[i] = "."} IN
  IF dots = {} THEN DigitsValue(text) * Scale
  ELSE LET d == CHOOSE i \in dots : TRUE
           whole == SubSeq(text, 1, d - 1)
           frac == SubSeq(text, d + 1, Len(text))
       IN DigitsValue(whole) * Scale
          + (DigitsValue(frac) * Scale) \div Pow10(Len(frac))

number(sc0) ==
  LET s1 == digits_loop(sc0)
      s2 == IF peek(s1) = "." /\ is_digit(peek_next(s1))
            THEN digits_loop(advance(s1)) ELSE s1
  IN yield(s2, _make_token(s2, "NUMBER",
                  Num(float(SubSeq(s2.source, s2.start + 1, s2.current)))))

RECURSIVE identifier_loop(_)
identifier_loop(sc) ==
  IF is_alphanumeric(peek(sc)) THEN identifier_loop(advance(sc)) ELSE sc

TokenType(text) ==
  IF \E k \in Keywords : k.text = text
  THEN (CHOOSE k \in Keywords : k.text = text).type
  ELSE "IDENTIFIER"

identifier(sc0) ==
  LET sc == identifier_loop(sc0)
      text == SubSeq(sc.source, sc.start + 1, sc.current)
  IN yield(sc, _make_token(sc, TokenType(text), None))

RECURSIVE comment_loop(_)
comment_loop(sc) ==
  IF peek(sc) # "\n" /\ ~is_at_end(sc) THEN comment_loop(advance(sc)) ELSE sc

two_char(sc, second, double, single) ==
  IF match(sc, second)
  THEN LET s1 == advance(sc) IN yield(s1, _make_token(s1, double, None))
  ELSE yield(sc, _make_token(sc, single, None))

(* One call of scan_token: the scanner after it, with the tokens yielded *)
scan_token(sc0) ==
  LET c == sc0.source[sc0.current + 1]
      sc == advance(sc0)
  IN CASE c = "(" -> yield(sc, _make_token(sc, "LEFT_PAREN", None))
       [] c = ")" -> yield(sc, _make_token(sc, "RIGHT_PAREN", None))
       [] c = "{" -> yield(sc, _make_token(sc, "LEFT_BRACE", None))
       [] c = "}" -> yield(sc, _make_token(sc, "RIGHT_BRACE", None))
       [] c = "," -> yield(sc, _make_token(sc, "COMMA", None))
       [] c = "." -> yield(sc, _make_token(sc, "DOT", None))
       [] c = "-" -> yield(sc, _make_token(sc, "MINUS", None))
       [] c = "+" -> yield(sc, _make_token(sc, "PLUS", None))
       [] c = ";" -> yield(sc, _make_token(sc, "SEMICOLON", None))
       [] c = "*" -> yield(sc, _make_token(sc, "STAR", None))
       [] c = "!" -> two_char(sc, "=", "BANG_EQUAL", "BANG")
       [] c = "=" -> two_char(sc, "=", "EQUAL_EQUAL", "EQUAL")
       [] c = "<" -> two_char(sc, "=", "LESS_EQUAL", "LESS")
       [] c = ">" -> two_char(sc, "=", "GREATER_EQUAL", "GREATER")
       [] c = "/" -> IF match(sc, "/") THEN comment_loop(advance(sc))
                     ELSE yield(sc, _make_token(sc, "SLASH", None))
       [] c \in {" ", "\r", "\t"} -> sc
       [] c = "\n" -> [sc EXCEPT !.line = @ + 1]
       [] c \in {"\"", "'"} -> string(sc, c)
       [] OTHER -> IF is_digit(c) THEN number(sc)
                   ELSE IF is_alpha(c) THEN identifier(sc)
                   ELSE sc

(* One iteration of the loop of scan_tokens *)
scan_step(sc) == scan_token([sc EXCEPT !.start = sc.current])

scan_eof_missing(sc) == sc

(* The statement after the loop of scan_tokens *)
scan_eof(sc) == yield(sc, Token("EOF", << >>, None, sc.line))

RECURSIVE scan_tokens(_)
scan_tokens(sc) ==
  IF ~is_at_end(sc) THEN scan_tokens(scan_step(sc)) ELSE scan_eof(sc)

scan(lox, source) == scan_tokens(NewScanner(lox, source))

(***************************************************************************)
(* ast.py: a node is a record whose field "node" names its class; a       *)
(* Python None in place of a node is NoneNode.                            *)
(***************************************************************************)
NoneNode == [node |-> "None"]
Assign(name, value) == [node |-> "Assign", name |-> name, value |-> value]
Binary(left, operator, right) ==
  [node |-> "Binary", left |-> left, operator |-> operator, right |-> right]
Call(callee, paren, arguments) ==
  [node |-> "Call", callee |-> callee, paren |-> paren,
   arguments |-> arguments]
Get(obj, name) == [node |-> "Get", obj |-> obj, name |-> name]
Grouping(expression) == [node |-> "Grouping", expression |-> expression]
Literal(value) == [node |-> "Literal", value |-> value]
Set(obj, name, value) ==
  [node |-> "Set", obj |-> obj, name |-> name, value |-> value]
This(keyword) == [node |-> "This", keyword |-> keyword]
Unary(operator, right) ==
  [node |-> "Unary", operator |-> operator, right |-> right]
Variable(name) == [node |-> "Variable", name |-> name]
ExpressionStmt(expression) ==
  [node |-> "ExpressionStmt", expression |-> expression]
FunctionDecl(name, params, body) ==
  [node |-> "FunctionDecl", name |-> name, params |-> params, body |-> body]
If(condition, then_branch, else_branch) ==
  [node |-> "If", condition |-> condition, then_branch |-> then_branch,
   else_branch |-> else_branch]
PrintStmt(expression) == [node |-> "PrintStmt", expression |-> expression]
ReturnStmt(keyword, value) ==
  [node |-> "ReturnStmt", keyword |-> keyword, value |-> value]
While(condition, body) ==
  [node |-> "While", condition |-> condition, body |-> body]
Block(statements) == [node |-> "Block", statements |-> statements]
Class(name, superclass, methods) ==
  [node |-> "Class", name |-> name, superclass |-> superclass,
   methods |-> methods]
VarDecl(name, initializer) ==
  [node |-> "VarDecl", name |-> name, initializer |-> initializer]

(***************************************************************************)
(* parser.py.  A parsing method yields [st, p, node]: st is "ok" (node is *)
(* the value returned), "ParseError" (raised) or "crash" (a TypeError:    *)
(* ast.Logical lacks accept and cannot be instantiated); p is the Parser  *)
(* afterwards, with the sink it reports to.                               *)
(***************************************************************************)
MaxListEntries == 255

NewParser(lox, tokens) == [lox |-> lox, tokens |-> tokens, current |-> 0]

Ok(p, node) == [st |-> "ok", p |-> p, node |-> node]
ParseError(p) == [st |-> "ParseError", p |-> p, node |-> NoneNode]
TypeError(p) == [st |-> "crash", p |-> p, node |-> NoneNode]

Parser_peek(p) == p.tokens[p.current + 1]

Parser_is_at_end(p) == Parser_peek(p).type = "EOF"

Parser_previous(p) ==
  IF p.current = 0 THEN p.tokens[Len(p.tokens)] ELSE p.tokens[p.current]

Parser_advance(p) ==
  IF ~Parser_is_at_end(p) THEN [p EXCEPT !.current = @ + 1] ELSE p

Parser_check(p, type) == ~Parser_is_at_end(p) /\ Parser_peek(p).type = type

(* match: when TRUE, the caller continues from Parser_advance(p) *)
Parser_match(p, types) == \E type \in types : Parser_check(p, type)

Parser_error(p, token, message) ==
  [p EXCEPT !.lox = token_error(@, token, message)]

RECURSIVE synchronize_loop(_)
synchronize_loop(p) ==
  IF Parser_is_at_end(p) THEN p
  ELSE IF Parser_previous(p).type = "SEMICOLON" THEN p
  ELSE IF Parser_peek(p).type \in
            {"CLASS", "FUN", "IF", "PRINT", "RETURN", "VAR", "WHILE"} THEN p
  ELSE synchronize_loop(Parser_advance(p))

Parser_synchronize(p) == synchronize_loop(Parser_advance(p))

Parser_consume(p, type, message) ==
  IF Parser_check(p, type)
  THEN Ok(Parser_advance(p), Parser_previous(Parser_advance(p)))
  ELSE ParseError(Parser_error(p, Parser_peek(p), message))

RECURSIVE declaration(_), function(_, _), parameters_loop(_, _),
          var_declaration(_), statement(_), for_statement(_),
          if_statement(_), block(_), block_loop(_, _), print_statement(_),
          return_statement(_), while_statement(_), expression_statement(_),
          expression(_), assignment(_), or_(_), and_(_), logical_loop(_, _, _),
          equality(_), comparison(_), term(_), factor(_),
          binary_operand(_, _), binary_loop(_, _, _, _), unary(_), call(_),
          call_loop(_, _), finish_call(_, _), arguments_loop(_, _), primary(_)

primary(p) ==
  LET q == Parser_advance(p) IN
  IF Parser_match(p, {"FALSE"}) THEN Ok(q, Literal(Bool(FALSE)))
  ELSE IF Parser_match(p, {"TRUE"}) THEN Ok(q, Literal(Bool(TRUE)))
  ELSE IF Parser_match(p, {"NIL"}) THEN Ok(q, Literal(None))
  ELSE IF Parser_match(p, {"NUMBER", "STRING"})
    THEN Ok(q, Literal(Parser_previous(q).literal))
  ELSE IF Parser_match(p, {"IDENTIFIER"})
    THEN Ok(q, Variable(Parser_previous(q)))
  ELSE IF Parser_match(p, {"LEFT_PAREN"})
    THEN Only({
           IF e.st # "ok" THEN e
           ELSE LET c == Parser_consume(e.p, "RIGHT_PAREN",
                                        << "Expect ')' after expression." >>)
                IN IF c.st # "ok" THEN c ELSE Ok(c.p, Grouping(e.node))
           : e \in {expression(q)}})
  ELSE ParseError(Parser_error(p, Parser_peek(p), << "Expect expression." >>))

(* finish_call: arguments.append(self.expression()) for the first argument *)
(* and after every comma; the check of the length precedes the append     *)
(* finish_call: one arguments.append(self.expression()); after a comma   *)
(* the length of the list is checked first (the list is empty before the  *)
(* first append, which has no check)                                      *)
arguments_step(p, arguments) ==
  LET q == IF Len(arguments) >= MaxListEntries
           THEN Parser_error(p, Parser_peek(p),
                             << "Can't have more than 255 arguments." >>)
           ELSE p
  IN Only({IF e.st # "ok" THEN e ELSE Ok(e.p, Append(arguments, e.node))
           : e \in {expression(q)}})

arguments_loop(p, arguments) ==
  Only({
    IF s.st # "ok" THEN s
    ELSE IF Parser_match(s.p, {"COMMA"})
    THEN arguments_loop(Parser_advance(s.p), s.node)
    ELSE s
    : s \in {arguments_step(p, arguments)}})

(* finish_call after the arguments: the closing parenthesis and the node *)
finish_call_tail(p, expr, arguments) ==
  LET paren == Parser_consume(p, "RIGHT_PAREN",
                              << "Expect ')' after arguments." >>)
  IN IF paren.st # "ok" THEN paren
     ELSE Ok(paren.p, Call(expr, paren.node, arguments))

finish_call(p, expr) ==
  Only({
    IF args.st # "ok" THEN args
    ELSE finish_call_tail(args.p, expr, args.node)
    : args \in {IF ~Parser_check(p, "RIGHT_PAREN")
                THEN arguments_loop(p, << >>)
                ELSE Ok(p, << >>)}})

call_loop(p, expr) ==
  IF Parser_match(p, {"LEFT_PAREN"})
  THEN Only({IF r.st # "ok" THEN r ELSE call_loop(r.p, r.node)
             : r \in {finish_call(Parser_advance(p), expr)}})
  ELSE Ok(p, expr)

call(p) ==
  Only({IF e.st # "ok" THEN e ELSE call_loop(e.p, e.node)
        : e \in {primary(p)}})

unary(p) ==
  IF Parser_match(p, {"BANG", "MINUS"})
  THEN LET q == Parser_advance(p) IN
       Only({IF right.st # "ok" THEN right
             ELSE Ok(right.p, Unary(Parser_previous(q), right.node))
             : right \in {unary(q)}})
  ELSE call(p)

(* factor, term, comparison and equality are the same loop,               *)
(*   expr = operand(); while match(types): expr = Binary(expr,            *)
(*   previous(), operand()),                                              *)
(* over their own token types and operand; left is the Binary built so    *)
(* far (NoneNode before the first operand) and operator the token matched *)
binary_types(level) ==
  CASE level = "factor" -> {"SLASH", "STAR"}
    [] level = "term" -> {"PLUS", "MINUS"}
    [] level = "comparison" ->
         {"GREATER", "GREATER_EQUAL", "LESS", "LESS_EQUAL"}
    [] level = "equality" -> {"BANG_EQUAL", "EQUAL_EQUAL"}

binary_operand(p, level) ==
  CASE level = "factor" -> unary(p)
    [] level = "term" -> factor(p)
    [] level = "comparison" -> term(p)
    [] level = "equality" -> comparison(p)

binary_loop(p, level, left, operator) ==
  Only({
    IF right.st # "ok" THEN right
    ELSE LET expr == IF left.node = "None" THEN right.node
                     ELSE Binary(left, operator, right.node)
             q == Parser_advance(right.p)
         IN IF Parser_match(right.p, binary_types(level))
            THEN binary_loop(q, level, expr, Parser_previous(q))
            ELSE Ok(right.p, expr)
    : right \in {binary_operand(p, level)}})

factor(p) == binary_loop(p, "factor", NoneNode, None)

term(p) == binary_loop(p, "term", NoneNode, None)

comparison(p) == binary_loop(p, "comparison", NoneNode, None)

equality(p) == binary_loop(p, "equality", NoneNode, None)

(* and_ and or_: expr = operand(); while match(type): right = operand();  *)
(* expr = ast.Logical(expr, operator, right), which raises TypeError as   *)
(* ast.Logical is abstract; first is FALSE once a type was matched        *)
logical_loop(p, type, first) ==
  Only({
    IF operand.st # "ok" THEN operand
    ELSE IF ~first THEN TypeError(operand.p)
    ELSE IF Parser_match(operand.p, {type})
    THEN logical_loop(Parser_advance(operand.p), type, FALSE)
    ELSE operand
    : operand \in {IF type = "OR" THEN and_(p) ELSE equality(p)}})

and_(p) == logical_loop(p, "AND", TRUE)

or_(p) == logical_loop(p, "OR", TRUE)

assignment(p) ==
  Only({
    IF e.st # "ok" THEN e
    ELSE IF Parser_match(e.p, {"EQUAL"})
    THEN LET q == Parser_advance(e.p)
             equals == Parser_previous(q)
         IN Only({
              IF value.st # "ok" THEN value
              ELSE IF e.node.node = "Variable"
              THEN Ok(value.p, Assign(e.node.name, value.node))
              ELSE Ok(Parser_error(value.p, equals,
                                   << "Invalid assignment target." >>),
                      e.node)
              : value \in {assignment(q)}})
    ELSE e
    : e \in {or_(p)}})

expression(p) == assignment(p)

expression_statement(p) ==
  Only({
    IF value.st # "ok" THEN value
    ELSE LET c == Parser_consume(value.p, "SEMICOLON",
                                 << "Expect ';' after value." >>)
         IN IF c.st # "ok" THEN c ELSE Ok(c.p, ExpressionStmt(value.node))
    : value \in {expression(p)}})

while_statement(p) ==
  LET c1 == Parser_consume(p, "LEFT_PAREN", << "Expect '(' after while." >>) IN
  IF c1.st # "ok" THEN c1 ELSE
  Only({
    IF condition.st # "ok" THEN condition ELSE
    LET c2 == Parser_consume(condition.p, "RIGHT_PAREN",
                             << "Expect ')' after while condition." >>) IN
    IF c2.st # "ok" THEN c2 ELSE
    Only({IF body.st # "ok" THEN body
          ELSE Ok(body.p, While(condition.node, body.node))
          : body \in {statement(c2.p)}})
    : condition \in {expression(c1.p)}})

return_statement(p) ==
  Only({
    IF value.st # "ok" THEN value
    ELSE LET c == Parser_consume(value.p, "SEMICOLON",
                                 << "Expect ';' after return value." >>)
         IN IF c.st # "ok" THEN c
            ELSE Ok(c.p, ReturnStmt(Parser_previous(p), value.node))
    : value \in {IF ~Parser_check(p, "SEMICOLON") THEN expression(p)
                 ELSE Ok(p, NoneNode)}})

print_statement(p) ==
  Only({
    IF value.st # "ok" THEN value
    ELSE LET c == Parser_consume(value.p, "SEMICOLON",
                                 << "Expect ';' after value." >>)
         IN IF c.st # "ok" THEN c ELSE Ok(c.p, PrintStmt(value.node))
    : value \in {expression(p)}})

block_loop(p, statements) ==
  IF ~(Parser_check(p, "RIGHT_BRACE") \/ Parser_is_at_end(p))
  THEN Only({IF d.st # "ok" THEN d
             ELSE block_loop(d.p, Append(statements, d.node))
             : d \in {declaration(p)}})
  ELSE Ok(p, statements)

block(p) ==
  Only({
    IF statements.st # "ok" THEN statements
    ELSE LET c == Parser_consume(statements.p, "RIGHT_BRACE",
                                 << "Expect '}' after block." >>)
         IN IF c.st # "ok" THEN c ELSE Ok(c.p, statements.node)
    : statements \in {block_loop(p, << >>)}})

if_statement(p) ==
  LET c1 == Parser_consume(p, "LEFT_PAREN", << "Expect '(' after if." >>) IN
  IF c1.st # "ok" THEN c1 ELSE
  Only({
    IF condition.st # "ok" THEN condition ELSE
    LET c2 == Parser_consume(condition.p, "RIGHT_PAREN",
                             << "Expect ')' after if condition." >>) IN
    IF c2.st # "ok" THEN c2 ELSE
    Only({
      IF then_branch.st # "ok" THEN then_branch ELSE
      Only({
        IF else_branch.st # "ok" THEN else_branch
        ELSE Ok(else_branch.p,
                If(condition.node, then_branch.node, else_branch.node))
        : else_branch \in {IF Parser_match(then_branch.p, {"ELSE"})
                           THEN statement(Parser_advance(then_branch.p))
                           ELSE Ok(then_branch.p, NoneNode)}})
      : then_branch \in {statement(c2.p)}})
    : condition \in {expression(c1.p)}})

(* the increment is parsed unless the next token is a RIGHT_BRACE *)
for_statement(p) ==
  LET c1 == Parser_consume(p, "LEFT_PAREN", << "Expect '(' after for." >>) IN
  IF c1.st # "ok" THEN c1 ELSE
  Only({
    IF initializer.st # "ok" THEN initializer ELSE
    Only({
      IF condition.st # "ok" THEN condition ELSE
      LET c2 == Parser_consume(condition.p, "SEMICOLON",
                               << "Expect ';' after loop condition." >>) IN
      IF c2.st # "ok" THEN c2 ELSE
      Only({
        IF increment.st # "ok" THEN increment ELSE
        LET c3 == Parser_consume(increment.p, "RIGHT_PAREN",
                                 << "Expect ')' after for clauses." >>) IN
        IF c3.st # "ok" THEN c3 ELSE
        Only({
          IF body.st # "ok" THEN body ELSE
          LET body1 == IF increment.node.node # "None"
                       THEN Block(<< body.node,
                                     ExpressionStmt(increment.node) >>)
                       ELSE body.node
              cond1 == IF condition.node.node = "None"
                       THEN Literal(Bool(TRUE))
                       ELSE condition.node
              body2 == While(cond1, body1)
          IN Ok(body.p, IF initializer.node.node # "None"
                        THEN Block(<< initializer.node, body2 >>)
                        ELSE body2)
          : body \in {statement(c3.p)}})
        : increment \in {IF ~Parser_check(c2.p, "RIGHT_BRACE")
                         THEN expression(c2.p)
                         ELSE Ok(c2.p, NoneNode)}})
      : condition \in {IF ~Parser_check(initializer.p, "SEMICOLON")
                       THEN expression(initializer.p)
                       ELSE Ok(initializer.p, NoneNode)}})
    : initializer \in {IF Parser_match(c1.p, {"SEMICOLON"})
                       THEN Ok(Parser_advance(c1.p), NoneNode)
                       ELSE IF Parser_match(c1.p, {"VAR"})
                       THEN var_declaration(Parser_advance(c1.p))
                       ELSE expression_statement(c1.p)}})

statement(p) ==
  LET q == Parser_advance(p) IN
  IF Parser_match(p, {"FOR"}) THEN for_statement(q)
  ELSE IF Parser_match(p, {"IF"}) THEN if_statement(q)
  ELSE IF Parser_match(p, {"PRINT"}) THEN print_statement(q)
  ELSE IF Parser_match(p, {"RETURN"}) THEN return_statement(q)
  ELSE IF Parser_match(p, {"WHILE"}) THEN while_statement(q)
  ELSE IF Parser_match(p, {"LEFT_BRACE"})
    THEN Only({IF b.st # "ok" THEN b ELSE Ok(b.p, Block(b.node))
               : b \in {block(q)}})
  ELSE expression_statement(p)

var_declaration(p) ==
  LET name == Parser_consume(p, "IDENTIFIER", << "Expect variable name." >>) IN
  IF name.st # "ok" THEN name ELSE
  Only({
    IF initializer.st # "ok" THEN initializer ELSE
    LET c == Parser_consume(initializer.p, "SEMICOLON",
                            << "Expect ';' after value." >>) IN
    IF c.st # "ok" THEN c ELSE Ok(c.p, VarDecl(name.node, initializer.node))
    : initializer \in {IF Parser_match(name.p, {"EQUAL"})
                       THEN expression(Parser_advance(name.p))
                       ELSE Ok(name.p, NoneNode)}})

(* function: one parameters.append(self.consume(IDENTIFIER, ...)), for   *)
(* the first parameter and after every comma; the check of the length     *)
(* follows the append, after a comma only                                 *)
parameters_step(p, parameters) ==
  LET param == Parser_consume(p, "IDENTIFIER",
                              << "Expect parameter name." >>) IN
  IF param.st # "ok" THEN param ELSE
  LET ps == Append(parameters, param.node) IN
  Ok(IF parameters # << >> /\ Len(ps) >= MaxListEntries
     THEN Parser_error(param.p, Parser_peek(param.p),
                       << "Can't have more than 255 parameters." >>)
     ELSE param.p,
     ps)

parameters_loop(p, parameters) ==
  Only({
    IF s.st # "ok" THEN s
    ELSE IF Parser_match(s.p, {"COMMA"})
    THEN parameters_loop(Parser_advance(s.p), s.node)
    ELSE s
    : s \in {parameters_step(p, parameters)}})

(* function up to the parameters: the name and the opening parenthesis *)
function_head(p, kind) ==
  LET name == Parser_consume(p, "IDENTIFIER", << "Expect ", kind, " name." >>)
  IN
  IF name.st # "ok" THEN name ELSE
  LET c1 == Parser_consume(name.p, "LEFT_PAREN",
                           << "Expect '(' after ", kind, " name." >>) IN
  IF c1.st # "ok" THEN c1 ELSE Ok(c1.p, name.node)

(* function after the parameters: the closing parenthesis and the body *)
function_tail(p, kind, name, parameters) ==
  LET c2 == Parser_consume(p, "RIGHT_PAREN",
                           << "Expect ')' after parameters." >>) IN
  IF c2.st # "ok" THEN c2 ELSE
  LET c3 == Parser_consume(c2.p, "LEFT_BRACE",
                           << "Expect '{' before ", kind, " body." >>) IN
  IF c3.st # "ok" THEN c3 ELSE
  Only({
    IF body.st # "ok" THEN body
    ELSE Ok(body.p, FunctionDecl(name, parameters, body.node))
    : body \in {block(c3.p)}})

function(p, kind) ==
  Only({
    IF head.st # "ok" THEN head ELSE
    Only({
      IF parameters.st # "ok" THEN parameters
      ELSE function_tail(parameters.p, kind, head.node, parameters.node)
      : parameters \in {IF ~Parser_check(head.p, "RIGHT_PAREN")
                        THEN parameters_loop(head.p, << >>)
                        ELSE Ok(head.p, << >>)}})
    : head \in {function_head(p, kind)}})

(* try ... except ParseError: synchronize(); return None *)
(* the try block of declaration *)
declaration_try(p) ==
  IF Parser_match(p, {"FUN"}) THEN function(Parser_advance(p), "function")
  ELSE IF Parser_match(p, {"VAR"}) THEN var_declaration(Parser_advance(p))
  ELSE statement(p)

declaration(p) ==
  Only({
    IF r.st = "ParseError" THEN Ok(Parser_synchronize(r.p), NoneNode) ELSE r
    : r \in {declaration_try(p)}})

RECURSIVE parse_loop(_, _)
parse_loop(p, statements) ==
  IF ~Parser_is_at_end(p)
  THEN Only({IF d.st # "ok" THEN d
             ELSE parse_loop(d.p, Append(statements, d.node))
             : d \in {declaration(p)}})
  ELSE Ok(p, statements)

Parser_parse(p) == parse_loop(p, << >>)

(* parser.parse(lox, source_string): scan everything, then parse *)
parse(lox, source_string) ==
  Only({Parser_parse(NewParser(sc.lox, sc.tokens))
        : sc \in {scan(lox, source_string)}})

(***************************************************************************)
(* Runtime values.  nil, booleans, numbers and strings are None, Bool,    *)
(* Num and Str; a LoxFunction and a LoxClass are dataclass values; an     *)
(* Environment and a LoxInstance are objects, named by their position in  *)
(* the interpreter's heap.                                                *)
(***************************************************************************)
Clock == [t |-> "Clock"]
LoxFunction(decl, closure, is_initializer) ==
  [t |-> "LoxFunction", declaration |-> decl, closure |-> closure,
   is_initializer |-> is_initializer]
LoxClass(name, superclass, methods) ==
  [t |-> "LoxClass", name |-> name, superclass |-> superclass,
   methods |-> methods]
LoxInstanceRef(id) == [t |-> "LoxInstance", id |-> id]

EmptyDict == [k \in {} |-> None]

(* environment.py: heap[e] is the Environment e, parent 0 is None *)
Environment(parent) == [parent |-> parent, values |-> EmptyDict]

Environment_define(heap, e, name, value) ==
  [heap EXCEPT ![e].values = (name :> value) @@ @]

RECURSIVE Environment_get(_, _, _)
Environment_get(heap, e, token) ==
  IF token.lexeme \in DOMAIN heap[e].values
  THEN [st |-> "ok", val |-> heap[e].values[token.lexeme]]
  ELSE IF heap[e].parent # 0
  THEN Environment_get(heap, heap[e].parent, token)
  ELSE [st |-> "RuntimeError",
        err |-> [token |-> token,
                 message |-> << "Undefined variable '", token.lexeme, "'." >>]]

(* an assign that does not walk the parent chain: it binds in e itself *)
Environment_assign_here(heap, e, token, value) ==
  [st |-> "ok", heap |-> Environment_define(heap, e, token.lexeme, value)]

RECURSIVE Environment_assign(_, _, _, _)
Environment_assign(heap, e, token, value) ==
  IF token.lexeme \notin DOMAIN heap[e].values
  THEN IF heap[e].parent # 0
       THEN Environment_assign(heap, heap[e].parent, token, value)
       ELSE [st |-> "RuntimeError", heap |-> heap,
             err |-> [token |-> token,
                      message |-> << "Undefined variable '", token.lexeme,
                                     "'." >>]]
  ELSE [st |-> "ok", heap |-> Environment_define(heap, e, token.lexeme, value)]

(* ancestor: 0 stands for the ValueError('Resolution error!') *)
RECURSIVE Environment_ancestor(_, _, _)
Environment_ancestor(heap, e, distance) ==
  IF distance <= 0 THEN e
  ELSE IF heap[e].parent = 0 THEN 0
  ELSE Environment_ancestor(heap, heap[e].parent, distance - 1)

Environment_get_at(heap, e, distance, name) ==
  LET a == Environment_ancestor(heap, e, distance) IN
  IF a = 0 THEN [st |-> "crash", exc |-> "ValueError"]
  ELSE IF name \notin DOMAIN heap[a].values
  THEN [st |-> "crash", exc |-> "KeyError"]
  ELSE [st |-> "ok", val |-> heap[a].values[name]]

Environment_assign_at(heap, e, distance, name, value) ==
  LET a == Environment_ancestor(heap, e, distance) IN
  IF a = 0 THEN [st |-> "crash", exc |-> "ValueError", heap |-> heap]
  ELSE [st |-> "ok",
        heap |-> Environment_define(heap, a, name.lexeme, value)]

(***************************************************************************)
(* visitor.py: the Interpreter.  I is the interpreter with everything it  *)
(* can reach: heap (the Environments), instances (the LoxInstances),      *)
(* globals and env (positions in heap), locals; out is the text printed;  *)
(* nexec and ninterpret count the calls of execute and of interpret, and  *)
(* now is what the clock reads.                                           *)
(* A visit yields [st, I, val, err, exc]: st is "ok" (val is the value    *)
(* returned), "RuntimeError" (err raised), "Return" (the Return signal    *)
(* carrying val) or "crash" (exc, an exception nothing catches).          *)
(***************************************************************************)
NewInterpreter ==
  [heap |-> << [parent |-> 0, values |-> (<<"c","l","o","c","k">> :> Clock)] >>,
   instances |-> << >>,
   globals |-> 1,
   env |-> 1,
   locals |-> EmptyDict,
   out |-> << >>,
   nexec |-> 0,
   ninterpret |-> 0,
   now |-> 0]

NoErr == [token |-> None, message |-> << >>]
Value(I, val) ==
  [st |-> "ok", I |-> I, val |-> val, err |-> NoErr, exc |-> ""]
RuntimeError(I, token, message) ==
  [st |-> "RuntimeError", I |-> I, val |-> None,
   err |-> [token |-> token, message |-> message], exc |-> ""]
Return(I, val) ==
  [st |-> "Return", I |-> I, val |-> val, err |-> NoErr, exc |-> ""]
Crash(I, exc) ==
  [st |-> "crash", I |-> I, val |-> None, err |-> NoErr, exc |-> exc]

isinstance(value, types) == value.t \in types

RECURSIVE NatDigits(_)
NatDigits(n) ==
  IF n < 10 THEN << Ascii[17 + n] >>
  ELSE Append(NatDigits(n \div 10), Ascii[17 + (n % 10)])

RECURSIVE StripZeros(_)
StripZeros(ds) ==
  IF ds # << >> /\ ds[Len(ds)] = "0" THEN StripZeros(SubSeq(ds, 1, Len(ds) - 1))
  ELSE ds

(* str(value) for a float: repr digits, always with a fractional part *)
float_str(n) ==
  LET a == IF n < 0 THEN 0 - n ELSE n
      whole == NatDigits(a \div Scale)
      f == a % Scale
      frac3 == SubSeq(NatDigits(Scale + f), 2, 4)
      frac == IF f = 0 THEN << "0" >> ELSE StripZeros(frac3)
  IN (IF n < 0 THEN << "-" >> ELSE << >>) \o whole \o << "." >> \o frac

str(value) ==
  CASE value.t = "bool" -> IF value.b THEN << "T", "r", "u", "e" >>
                           ELSE << "F", "a", "l", "s", "e" >>
    [] value.t = "float" -> float_str(value.n)
    [] value.t = "Clock" -> << "<", "n", "a", "t", "i", "v", "e", " ",
                               "f", "n", ">" >>
    [] value.t = "LoxFunction" ->
         << "<", "f", "n", " " >> \o value.declaration.name.lexeme
                                  \o << ">" >>
    [] value.t = "LoxClass" -> value.name
    [] value.t = "LoxInstance" -> << "i", "n", "s", "t", "a", "n", "c", "e" >>

stringify(value) ==
  IF value = None THEN << "n", "i", "l" >>
  ELSE IF isinstance(value, {"str"}) THEN value.s
  ELSE IF isinstance(value, {"float"})
  THEN LET v == str(value) IN
       IF SubSeq(v, Len(v) - 1, Len(v)) = << ".", "0" >>
       THEN SubSeq(v, 1, Len(v) - 2) ELSE v
  ELSE str(value)

is_truthy(value) ==
  IF isinstance(value, {"bool"}) THEN value.b
  ELSE IF value = None THEN FALSE
  ELSE TRUE

(* dataclasses hash only Super, This and Variable (unsafe_hash=True); the *)
(* other node classes define __eq__ without __hash__ and are unhashable.  *)
Hashable(expr) == expr.node \in {"Super", "This", "Variable"}

(* Python's == on runtime values: bool is a number (True == 1.0); the    *)
(* dataclasses compare field by field (an Environment by its parent, a    *)
(* LoxInstance by its klass); a Clock compares by identity.               *)
RECURSIVE EnvironmentDepth(_, _)
EnvironmentDepth(heap, e) ==
  IF e = 0 THEN 0 ELSE 1 + EnvironmentDepth(heap, heap[e].parent)

AsNumber(value) ==
  IF value.t = "bool" THEN (IF value.b THEN Scale ELSE 0) ELSE value.n

RECURSIVE py_eq(_, _, _)
py_eq(I, a, b) ==
  IF a.t \in {"bool", "float"} /\ b.t \in {"bool", "float"}
  THEN AsNumber(a) = AsNumber(b)
  ELSE IF a.t # b.t THEN FALSE
  ELSE CASE a.t = "None" -> TRUE
         [] a.t = "str" -> a.s = b.s
         [] a.t = "Clock" -> TRUE
         [] a.t = "LoxFunction" ->
              /\ a.declaration = b.declaration
              /\ EnvironmentDepth(I.heap, a.closure)
                   = EnvironmentDepth(I.heap, b.closure)
              /\ a.is_initializer = b.is_initializer
         [] a.t = "LoxClass" ->
              /\ a.name = b.name
              /\ py_eq(I, a.superclass, b.superclass)
              /\ DOMAIN a.methods = DOMAIN b.methods
              /\ \A m \in DOMAIN a.methods :
                   py_eq(I, a.methods[m], b.methods[m])
         [] a.t = "LoxInstance" ->
              py_eq(I, I.instances[a.id].klass, I.instances[b.id].klass)

(* callable.py and lox_class.py *)
THIS == << "t", "h", "i", "s" >>
INIT == << "i", "n", "i", "t" >>

RECURSIVE LoxClass_find_method(_, _)
LoxClass_find_method(klass, name) ==
  IF name \in DOMAIN klass.methods THEN klass.methods[name]
  ELSE IF klass.superclass # None
  THEN LoxClass_find_method(klass.superclass, name)
  ELSE None

LoxFunction_arity(f) == Len(f.declaration.params)

LoxClass_arity(klass) ==
  LET init == LoxClass_find_method(klass, INIT) IN
  IF init = None THEN 0 ELSE LoxFunction_arity(init)

arity(callee) ==
  CASE callee.t = "Clock" -> 0
    [] callee.t = "LoxFunction" -> LoxFunction_arity(callee)
    [] callee.t = "LoxClass" -> LoxClass_arity(callee)

(* bind: the interpreter with the new Environment, and the bound method *)
LoxFunction_bind(I, f, instance) ==
  LET env == Len(I.heap) + 1
      heap1 == Append(I.heap, Environment(f.closure))
  IN [I |-> [I EXCEPT !.heap = Environment_define(heap1, env, THIS, instance)],
      val |-> LoxFunction(f.declaration, env, f.is_initializer)]

LoxInstance_get(I, instance, name) ==
  LET obj == I.instances[instance.id] IN
  IF name.lexeme \in DOMAIN obj.fields
  THEN Value(I, obj.fields[name.lexeme])
  ELSE LET method == LoxClass_find_method(obj.klass, name.lexeme) IN
       IF method # None
       THEN LET b == LoxFunction_bind(I, method, instance)
            IN Value(b.I, b.val)
       ELSE RuntimeError(I, name,
                         << "Undefined property '", name.lexeme, "'." >>)

LoxInstance_set(I, instance, name, value) ==
  [I EXCEPT !.instances[instance.id].fields = (name.lexeme :> value) @@ @]

RECURSIVE define_params(_, _, _, _)
define_params(heap, env, arguments, params) ==
  IF arguments = << >> \/ params = << >> THEN heap
  ELSE define_params(
         Environment_define(heap, env, params[1].lexeme, arguments[1]),
         env, Tail(arguments), Tail(params))

check_number_operands(left, right) ==
  isinstance(left, {"float"}) /\ isinstance(right, {"float"})

lookup_variable(I, name, expr) ==
  IF expr \in DOMAIN I.locals
  THEN LET r == Environment_get_at(I.heap, I.env, I.locals[expr], name.lexeme)
       IN IF r.st = "ok" THEN Value(I, r.val) ELSE Crash(I, r.exc)
  ELSE LET r == Environment_get(I.heap, I.globals, name)
       IN IF r.st = "ok" THEN Value(I, r.val)
          ELSE RuntimeError(I, r.err.token, r.err.message)

(* Interpreter.resolve *)
Interpreter_resolve(I, expr, depth) ==
  IF Hashable(expr)
  THEN Value([I EXCEPT !.locals = (expr :> depth) @@ @], None)
  ELSE Crash(I, "TypeError")

MaxLoop == 4

RECURSIVE evaluate(_, _), execute(_, _), execute_block(_, _, _),
          execute_statements(_, _), evaluate_arguments(_, _, _),
          LoxFunction_call(_, _, _), LoxClass_call(_, _, _),
          callable_call(_, _, _), while_loop(_, _, _),
          visit_assign(_, _), visit_binary(_, _), visit_call(_, _),
          visit_call_unchecked(_, _), visit_get(_, _), visit_set(_, _),
          visit_unary(_, _), visit_if(_, _)

visit_assign(I, expr) ==
  Only({
    IF value.st # "ok" THEN value
    ELSE IF ~Hashable(expr) THEN Crash(value.I, "TypeError")
    ELSE IF expr \notin DOMAIN value.I.locals THEN Crash(value.I, "KeyError")
    ELSE LET r == Environment_assign_at(value.I.heap, value.I.env,
                                        value.I.locals[expr], expr.name,
                                        value.val)
         IN IF r.st # "ok" THEN Crash(value.I, r.exc)
            ELSE Value([value.I EXCEPT !.heap = r.heap], value.val)
    : value \in {evaluate(I, expr.value)}})

(* the operator applied to the values l and r of the operands *)
binary_value(J, expr, l, r) ==
  LET op_type == expr.operator.type
      numbers == check_number_operands(l, r)
      not_numbers ==
        RuntimeError(J, expr.operator, << "Operands must be numbers." >>)
  IN CASE op_type = "MINUS" ->
            IF numbers THEN Value(J, Num(l.n - r.n)) ELSE not_numbers
       [] op_type = "SLASH" ->
            IF ~numbers THEN not_numbers
            ELSE IF r.n = 0 THEN Crash(J, "ZeroDivisionError")
            ELSE Value(J, Num((l.n * Scale) \div r.n))
       [] op_type = "PLUS" ->
            IF isinstance(l, {"float"}) /\ isinstance(r, {"float"})
            THEN Value(J, Num(l.n + r.n))
            ELSE IF isinstance(l, {"str"}) /\ isinstance(r, {"str"})
            THEN Value(J, Str(l.s \o r.s))
            ELSE RuntimeError(J, expr.operator,
                              << "Operands must be numbers or strings." >>)
       [] op_type = "STAR" ->
            IF numbers THEN Value(J, Num((l.n * r.n) \div Scale))
            ELSE not_numbers
       [] op_type = "GREATER" ->
            IF numbers THEN Value(J, Bool(l.n > r.n)) ELSE not_numbers
       [] op_type = "GREATER_EQUAL" ->
            IF numbers THEN Value(J, Bool(l.n >= r.n)) ELSE not_numbers
       [] op_type = "LESS" ->
            IF numbers THEN Value(J, Bool(l.n < r.n)) ELSE not_numbers
       [] op_type = "LESS_EQUAL" ->
            IF numbers THEN Value(J, Bool(l.n <= r.n)) ELSE not_numbers
       [] op_type = "BANG_EQUAL" -> Value(J, Bool(~py_eq(J, l, r)))
       [] op_type = "EQUAL_EQUAL" -> Value(J, Bool(py_eq(J, l, r)))
       [] OTHER -> Value(J, None)

visit_binary(I, expr) ==
  Only({
    IF left.st # "ok" THEN left ELSE
    Only({
      IF right.st # "ok" THEN right
      ELSE binary_value(right.I, expr, left.val, right.val)
      : right \in {evaluate(left.I, expr.right)}})
    : left \in {evaluate(I, expr.left)}})

visit_unary(I, expr) ==
  Only({
    IF right.st # "ok" THEN right
    ELSE CASE expr.operator.type = "MINUS" ->
                IF isinstance(right.val, {"float"})
                THEN Value(right.I, Num(0 - right.val.n))
                ELSE RuntimeError(right.I, expr.operator,
                                  << "Operand must be a number." >>)
           [] expr.operator.type = "BANG" ->
                Value(right.I, Bool(~is_truthy(right.val)))
           [] OTHER -> Value(right.I, None)
    : right \in {evaluate(I, expr.right)}})

(* the loop of visit_call over expr.arguments; val is the list of values *)
evaluate_arguments(I, args, values) ==
  IF args = << >> THEN Value(I, values)
  ELSE Only({
         IF a.st # "ok" THEN a
         ELSE evaluate_arguments(a.I, Tail(args), Append(values, a.val))
         : a \in {evaluate(I, args[1])}})

(* a call that does not catch the Return of its body *)
LoxFunction_call_uncaught(I, f, arguments) ==
  LET env == Len(I.heap) + 1
      heap1 == Append(I.heap, Environment(f.closure))
      I1 == [I EXCEPT !.heap = define_params(heap1, env, arguments,
                                             f.declaration.params)]
  IN Only({
       IF r.st # "ok" THEN r ELSE Value(r.I, None)
       : r \in {execute_block(I1, f.declaration.body, env)}})

LoxFunction_call(I, f, arguments) ==
  LET env == Len(I.heap) + 1
      heap1 == Append(I.heap, Environment(f.closure))
      I1 == [I EXCEPT !.heap = define_params(heap1, env, arguments,
                                             f.declaration.params)]
  IN Only({
       IF r.st = "Return" THEN Value(r.I, r.val)
       ELSE IF r.st # "ok" THEN r
       ELSE IF f.is_initializer
       THEN LET this == Environment_get_at(r.I.heap, f.closure, 0, THIS) IN
            IF this.st = "ok" THEN Value(r.I, this.val)
            ELSE Crash(r.I, this.exc)
       ELSE Value(r.I, None)
       : r \in {execute_block(I1, f.declaration.body, env)}})

LoxClass_call(I, klass, arguments) ==
  LET id == Len(I.instances) + 1
      instance == LoxInstanceRef(id)
      I1 == [I EXCEPT !.instances =
                        Append(@, [klass |-> klass, fields |-> EmptyDict])]
      init == LoxClass_find_method(klass, INIT)
  IN IF init # None
     THEN Only({
            IF r.st # "ok" THEN r ELSE Value(r.I, instance)
            : r \in {Only({LoxFunction_call(b.I, b.val, arguments)
                           : b \in {LoxFunction_bind(I1, init, instance)}})}})
     ELSE Value(I1, instance)

callable_call(I, callee, arguments) ==
  CASE callee.t = "Clock" -> Value(I, Num(I.now))
    [] callee.t = "LoxFunction" -> LoxFunction_call(I, callee, arguments)
    [] callee.t = "LoxClass" -> LoxClass_call(I, callee, arguments)

(* visit_call without its check of the number of arguments *)
visit_call_unchecked(I, expr) ==
  Only({
    IF callee.st # "ok" THEN callee ELSE
    Only({
      IF arguments.st # "ok" THEN arguments
      ELSE IF ~isinstance(callee.val, {"Clock", "LoxFunction", "LoxClass"})
      THEN RuntimeError(arguments.I, expr.paren,
                        << "Can only call functions and classes." >>)
      ELSE callable_call(arguments.I, callee.val, arguments.val)
      : arguments \in {evaluate_arguments(callee.I, expr.arguments, << >>)}})
    : callee \in {evaluate(I, expr.callee)}})

visit_call(I, expr) ==
  Only({
    IF callee.st # "ok" THEN callee ELSE
    Only({
      IF arguments.st # "ok" THEN arguments
      ELSE IF ~isinstance(callee.val, {"Clock", "LoxFunction", "LoxClass"})
      THEN RuntimeError(arguments.I, expr.paren,
                        << "Can only call functions and classes." >>)
      ELSE IF Len(arguments.val) # arity(callee.val)
      THEN RuntimeError(arguments.I, expr.paren,
                        << "Expected ", arity(callee.val),
                           " arguments but got ", Len(arguments.val), "." >>)
      ELSE callable_call(arguments.I, callee.val, arguments.val)
      : arguments \in {evaluate_arguments(callee.I, expr.arguments, << >>)}})
    : callee \in {evaluate(I, expr.callee)}})

visit_get(I, expr) ==
  Only({
    IF obj.st # "ok" THEN obj
    ELSE IF isinstance(obj.val, {"LoxInstance"})
    THEN LoxInstance_get(obj.I, obj.val, expr.name)
    ELSE RuntimeError(obj.I, expr.name,
                      << "Only instances have properties." >>)
    : obj \in {evaluate(I, expr.obj)}})

visit_set(I, expr) ==
  Only({
    IF obj.st # "ok" THEN obj
    ELSE IF ~isinstance(obj.val, {"LoxInstance"})
    THEN RuntimeError(obj.I, expr.name, << "Only instances have fields." >>)
    ELSE Only({
           IF value.st # "ok" THEN value
           ELSE Value(LoxInstance_set(value.I, obj.val, expr.name, value.val),
                      value.val)
           : value \in {evaluate(obj.I, expr.value)}})
    : obj \in {evaluate(I, expr.obj)}})

evaluate(I, expr) ==
  CASE expr.node = "Assign" -> visit_assign(I, expr)
    [] expr.node = "Binary" -> visit_binary(I, expr)
    [] expr.node = "Call" -> visit_call(I, expr)
    [] expr.node = "Get" -> visit_get(I, expr)
    [] expr.node = "Grouping" -> evaluate(I, expr.expression)
    [] expr.node = "Literal" -> Value(I, expr.value)
    [] expr.node = "Set" -> visit_set(I, expr)
    [] expr.node = "This" -> lookup_variable(I, expr.keyword, expr)
    [] expr.node = "Unary" -> visit_unary(I, expr)
    [] expr.node = "Variable" -> lookup_variable(I, expr.name, expr)
    [] OTHER -> Crash(I, "AttributeError")

(* visit_class: LoxClass(stmt.name.lexeme, methods) passes two of the   *)
(* three fields of the dataclass and raises TypeError.                    *)
visit_class(I, stmt) ==
  Crash([I EXCEPT !.heap = Environment_define(@, I.env, stmt.name.lexeme,
                                              None)],
        "TypeError")

visit_if(I, stmt) ==
  Only({
    IF pred.st # "ok" THEN pred
    ELSE IF is_truthy(pred.val) THEN execute(pred.I, stmt.then_branch)
    ELSE IF stmt.else_branch # NoneNode THEN execute(pred.I, stmt.else_branch)
    ELSE Value(pred.I, None)
    : pred \in {evaluate(I, stmt.condition)}})

(* visit_while; past MaxLoop iterations the run is cut off ("diverges") *)
while_loop(I, stmt, n) ==
  Only({
    IF c.st # "ok" THEN c
    ELSE IF ~is_truthy(c.val) THEN Value(c.I, None)
    ELSE IF n >= MaxLoop THEN Crash(c.I, "diverges")
    ELSE Only({IF b.st # "ok" THEN b ELSE while_loop(b.I, stmt, n + 1)
               : b \in {execute(c.I, stmt.body)}})
    : c \in {evaluate(I, stmt.condition)}})

execute_statements(I, stmts) ==
  IF stmts = << >> THEN Value(I, None)
  ELSE Only({IF r.st # "ok" THEN r ELSE execute_statements(r.I, Tail(stmts))
             : r \in {execute(I, stmts[1])}})

(* an execute_block without the finally: the environment is put back     *)
(* only when the statements end normally                                  *)
execute_block_no_finally(I, stmts, env) ==
  Only({IF r.st = "ok" THEN [r EXCEPT !.I.env = I.env] ELSE r
        : r \in {execute_statements([I EXCEPT !.env = env], stmts)}})

(* try: self.env = env; ... finally: self.env = previous *)
execute_block(I, stmts, env) ==
  Only({[r EXCEPT !.I.env = I.env]
        : r \in {execute_statements([I EXCEPT !.env = env], stmts)}})

(* the value of the optional expression of a statement, nil without one *)
evaluate_optional(I, expr) ==
  IF expr # NoneNode THEN evaluate(I, expr) ELSE Value(I, None)

execute(I0, stmt) ==
  LET I == [I0 EXCEPT !.nexec = @ + 1] IN
  CASE stmt.node = "ExpressionStmt" ->
         Only({IF r.st # "ok" THEN r ELSE Value(r.I, None)
               : r \in {evaluate(I, stmt.expression)}})
    [] stmt.node = "FunctionDecl" ->
         Value([I EXCEPT !.heap =
                  Environment_define(@, I.env, stmt.name.lexeme,
                                     LoxFunction(stmt, I.env, FALSE))], None)
    [] stmt.node = "If" -> visit_if(I, stmt)
    [] stmt.node = "PrintStmt" ->
         Only({IF r.st # "ok" THEN r
               ELSE Value([r.I EXCEPT !.out = Append(@, stringify(r.val))],
                          None)
               : r \in {evaluate(I, stmt.expression)}})
    [] stmt.node = "ReturnStmt" ->
         Only({IF r.st # "ok" THEN r ELSE Return(r.I, r.val)
               : r \in {evaluate_optional(I, stmt.value)}})
    [] stmt.node = "While" -> while_loop(I, stmt, 0)
    [] stmt.node = "Block" ->
         execute_block([I EXCEPT !.heap = Append(@, Environment(I.env))],
                       stmt.statements, Len(I.heap) + 1)
    [] stmt.node = "Class" -> visit_class(I, stmt)
    [] stmt.node = "VarDecl" ->
         Only({IF r.st # "ok" THEN r
               ELSE Value([r.I EXCEPT !.heap =
                             Environment_define(@, r.I.env, stmt.name.lexeme,
                                                r.val)], None)
               : r \in {evaluate_optional(I, stmt.initializer)}})
    [] OTHER -> Crash(I, "AttributeError")

(* an interpret that catches the RuntimeError and reports nothing *)
interpret_silent(lox, I, stmts) ==
  Only({
    IF r.st = "RuntimeError"
    THEN [st |-> "ok", lox |-> lox, I |-> r.I, exc |-> ""]
    ELSE IF r.st = "Return"
    THEN [st |-> "crash", lox |-> lox, I |-> r.I, exc |-> "Return"]
    ELSE [st |-> r.st, lox |-> lox, I |-> r.I, exc |-> r.exc]
    : r \in {execute_statements([I EXCEPT !.ninterpret = @ + 1], stmts)}})

(* Interpreter.interpret: a RuntimeError is caught and reported to the   *)
(* sink; the Return signal and every other exception propagate.           *)
interpret(lox, I, stmts) ==
  Only({
    IF r.st = "RuntimeError"
    THEN [st |-> "ok", lox |-> runtime_error(lox, r.err), I |-> r.I,
          exc |-> ""]
    ELSE IF r.st = "Return"
    THEN [st |-> "crash", lox |-> lox, I |-> r.I, exc |-> "Return"]
    ELSE [st |-> r.st, lox |-> lox, I |-> r.I, exc |-> r.exc]
    : r \in {execute_statements([I EXCEPT !.ninterpret = @ + 1], stmts)}})

(***************************************************************************)
(* variable_resolver.py.  Z is the VariableResolver with the sink (lox)   *)
(* and the Interpreter (I) it holds; a visit yields [st, Z], st being     *)
(* "ok" or "crash" (exc: the KeyError of current_scope()[name], or the    *)
(* TypeError of Interpreter.resolve on an unhashable node).               *)
(***************************************************************************)
NewVariableResolver(lox, I) ==
  [lox |-> lox, I |-> I, scopes |-> << >>,
   current_function |-> "NONE", current_klass |-> "NONE"]

Resolved(Z) == [st |-> "ok", Z |-> Z, exc |-> ""]
ResolverCrash(Z, exc) == [st |-> "crash", Z |-> Z, exc |-> exc]

(* scopes[-1] *)
current_scope(Z) == Z.scopes[Len(Z.scopes)]

push_scope(Z) == [Z EXCEPT !.scopes = Append(@, EmptyDict)]
pop_scope(Z) == [Z EXCEPT !.scopes = SubSeq(@, 1, Len(@) - 1)]

(* declare with the test made on every scope of the stack *)
Resolver_declare_any_scope(Z, name) ==
  IF Z.scopes = << >> THEN Z
  ELSE LET Z1 == IF \E i \in 1..Len(Z.scopes) :
                      name.lexeme \in DOMAIN Z.scopes[i]
                 THEN [Z EXCEPT !.lox = token_error(@, name,
                         << "Already a variable with this name in this scope." >>)]
                 ELSE Z
       IN [Z1 EXCEPT !.scopes[Len(Z.scopes)] = (name.lexeme :> FALSE) @@ @]

Resolver_declare(Z, name) ==
  IF Z.scopes = << >> THEN Z
  ELSE LET Z1 == IF name.lexeme \in DOMAIN current_scope(Z)
                 THEN [Z EXCEPT !.lox = token_error(@, name,
                         << "Already a variable with this name in this scope." >>)]
                 ELSE Z
       IN [Z1 EXCEPT !.scopes[Len(Z.scopes)] = (name.lexeme :> FALSE) @@ @]

Resolver_define(Z, name) ==
  IF Z.scopes = << >> THEN Z
  ELSE [Z EXCEPT !.scopes[Len(Z.scopes)] = (name.lexeme :> TRUE) @@ @]

(* the i of the first scope, innermost first, that holds the name; -1 if none *)
RECURSIVE scope_distance(_, _, _)
scope_distance(scopes, lexeme, i) ==
  IF i >= Len(scopes) THEN 0 - 1
  ELSE IF lexeme \in DOMAIN scopes[Len(scopes) - i] THEN i
  ELSE scope_distance(scopes, lexeme, i + 1)

resolve_local(Z, expr, name) ==
  LET i == scope_distance(Z.scopes, name.lexeme, 0) IN
  IF i < 0 THEN Resolved(Z)
  ELSE LET r == Interpreter_resolve(Z.I, expr, i) IN
       IF r.st = "ok" THEN Resolved([Z EXCEPT !.I = r.I])
       ELSE ResolverCrash(Z, r.exc)

RECURSIVE resolve(_, _), resolve_statements(_, _), resolve_all(_, _),
          resolve_function(_, _, _), resolve_methods(_, _),
          declare_params(_, _)

Resolver_visit_variable(Z, expr) ==
  IF Z.scopes # << >> /\ expr.name.lexeme \notin DOMAIN current_scope(Z)
  THEN ResolverCrash(Z, "KeyError")
  ELSE LET Z1 == IF Z.scopes # << >> /\ ~current_scope(Z)[expr.name.lexeme]
                 THEN [Z EXCEPT !.lox = token_error(@, expr.name,
                         << "Can't read local variable in its own initializer" >>)]
                 ELSE Z
       IN resolve_local(Z1, expr, expr.name)

Resolver_visit_this(Z, expr) ==
  LET Z1 == IF Z.current_klass = "NONE"
            THEN [Z EXCEPT !.lox = error(@, expr.keyword,
                                << "Can't use this outside of a class." >>)]
            ELSE Z
  IN resolve_local(Z1, expr, expr.keyword)

declare_params(Z, params) ==
  IF params = << >> THEN Z
  ELSE declare_params(Resolver_define(Resolver_declare(Z, params[1]),
                                      params[1]), Tail(params))

(* with self.scope(), self.new_function(func_type): ... *)
resolve_function(Z, stmt, func_type) ==
  LET Z1 == [push_scope(Z) EXCEPT !.current_function = func_type] IN
  Only({
    IF r.st # "ok" THEN r
    ELSE Resolved(pop_scope([r.Z EXCEPT !.current_function =
                                          Z.current_function]))
    : r \in {resolve_statements(declare_params(Z1, stmt.params),
                                stmt.body)}})

resolve_methods(Z, methods) ==
  IF methods = << >> THEN Resolved(Z)
  ELSE Only({IF r.st # "ok" THEN r ELSE resolve_methods(r.Z, Tail(methods))
             : r \in {resolve_function(Z, methods[1],
                                       IF methods[1].name.lexeme = INIT
                                       THEN "INITIALIZER" ELSE "METHOD")}})

(* resolve each node of a list in order *)
resolve_all(Z, nodes) ==
  IF nodes = << >> THEN Resolved(Z)
  ELSE Only({IF r.st # "ok" THEN r ELSE resolve_all(r.Z, Tail(nodes))
             : r \in {resolve(Z, nodes[1])}})

resolve_statements(Z, stmts) == resolve_all(Z, stmts)

resolve(Z, n) ==
  CASE n.node = "Assign" ->
         Only({IF r.st # "ok" THEN r ELSE resolve_local(r.Z, n, n.name)
               : r \in {resolve(Z, n.value)}})
    [] n.node = "Call" -> resolve_all(Z, << n.callee >> \o n.arguments)
    [] n.node = "Get" -> resolve(Z, n.obj)
    [] n.node = "Binary" -> resolve_all(Z, << n.left, n.right >>)
    [] n.node = "Grouping" -> resolve(Z, n.expression)
    [] n.node = "Literal" -> Resolved(Z)
    [] n.node = "Set" -> resolve_all(Z, << n.value, n.obj >>)
    [] n.node = "This" -> Resolver_visit_this(Z, n)
    [] n.node = "Unary" -> resolve(Z, n.right)
    [] n.node = "Variable" -> Resolver_visit_variable(Z, n)
    [] n.node = "FunctionDecl" ->
         resolve_function(Resolver_define(Resolver_declare(Z, n.name), n.name),
                          n, "FUNCTION")
    [] n.node = "If" ->
         resolve_all(Z, << n.condition, n.then_branch >>
                        \o (IF n.else_branch # NoneNode
                            THEN << n.else_branch >> ELSE << >>))
    [] n.node = "ExpressionStmt" -> resolve(Z, n.expression)
    [] n.node = "PrintStmt" -> resolve(Z, n.expression)
    [] n.node = "ReturnStmt" ->
         LET Z1 == IF Z.current_function = "NONE"
                   THEN [Z EXCEPT !.lox = token_error(@, n.keyword,
                                  << "Can't return from top-level code." >>)]
                   ELSE Z
         IN IF n.value # NoneNode
            THEN resolve(IF Z1.current_function = "INITIALIZER"
                         THEN [Z1 EXCEPT !.lox = token_error(@, n.keyword,
                                  << "Can't return from an initializer." >>)]
                         ELSE Z1,
                         n.value)
            ELSE Resolved(Z1)
    [] n.node = "While" -> resolve_all(Z, << n.condition, n.body >>)
    [] n.node = "Block" ->
         Only({IF r.st # "ok" THEN r ELSE Resolved(pop_scope(r.Z))
               : r \in {resolve_statements(push_scope(Z), n.statements)}})
    [] n.node = "Class" ->
         LET Z1 == push_scope(Resolver_define(Resolver_declare(Z, n.name),
                                              n.name))
             Z2 == [Z1 EXCEPT !.current_klass = "CLASS",
                              !.scopes[Len(Z1.scopes)] = (THIS :> TRUE) @@ @]
         IN Only({
              IF r.st # "ok" THEN r
              ELSE Resolved(pop_scope([r.Z EXCEPT !.current_klass =
                                                    Z.current_klass]))
              : r \in {resolve_methods(Z2, n.methods)}})
    [] n.node = "VarDecl" ->
         IF n.initializer # NoneNode
         THEN Only({IF r.st # "ok" THEN r
                    ELSE Resolved(Resolver_define(r.Z, n.name))
                    : r \in {resolve(Resolver_declare(Z, n.name),
                                     n.initializer)}})
         ELSE Resolved(Resolver_define(Resolver_declare(Z, n.name), n.name))
    [] OTHER -> ResolverCrash(Z, "AttributeError")

(***************************************************************************)
(* main.py                                                                 *)
(***************************************************************************)
(* run without its test of has_error *)
Lox_run_unchecked(lox, I, source) ==
  Only({
    IF statements.st # "ok"
    THEN [st |-> "crash", lox |-> statements.p.lox, I |-> I,
          exc |-> "TypeError"]
    ELSE interpret(statements.p.lox, I, statements.node)
    : statements \in {parse(lox, source)}})

Lox_run(lox, I, source) ==
  Only({
    IF statements.st # "ok"
    THEN [st |-> "crash", lox |-> statements.p.lox, I |-> I,
          exc |-> "TypeError"]
    ELSE IF statements.p.lox.has_error
    THEN [st |-> "ok", lox |-> statements.p.lox, I |-> I, exc |-> ""]
    ELSE interpret(statements.p.lox, I, statements.node)
    : statements \in {parse(lox, source)}})

(***************************************************************************)
(* State                                                                   *)
(***************************************************************************)
VARIABLES
  scanner,      \* a Scanner object with the tokens it has yielded so far
  scan_pc,      \* "idle": scan not yet called; "loop": inside the while loop
                \* of scan_tokens; "done": the generator is exhausted
  lox,          \* the Lox object: has_error, has_runtime_error, and the
                \* diagnostics printed on the error console (diags)
  interpreter,  \* the Interpreter and the objects it can reach
  resolver,     \* a VariableResolver with its sink and its Interpreter
  pc,           \* where the driver is (main, the REPL loop, a caller of
                \* the resolver or of the interpreter)
  line,         \* the source text last handed to run or to parse
  nlines,       \* how many lines the REPL has read
  op,           \* the last operation a caller made on the interpreter
  result,       \* what that operation returned or raised
  nops,         \* how many operations were made
  parser,       \* the Parser inside Parser.parse
  parsed        \* the local list statements of Parser.parse

vars == << scanner, scan_pc, lox, interpreter, resolver, pc, line, nlines,
           op, result, nops, parser, parsed >>

NoOp == [kind |-> "none", name |-> << >>, nargs |-> 0]
NoResult == [st |-> "none", val |-> None, err |-> NoErr, exc |-> ""]

(* what main() constructs: lox = Lox(), whose __post_init__ builds the    *)
(* Interpreter                                                             *)
Constructed ==
  /\ lox = NewLox
  /\ interpreter = NewInterpreter
  /\ resolver = NewVariableResolver(NewLox, NewInterpreter)
  /\ line = << >>
  /\ nlines = 0
  /\ op = NoOp
  /\ result = NoResult
  /\ nops = 0
  /\ parser = NewParser(NewLox, << >>)
  /\ parsed = << >>

(***************************************************************************)
(* SpecScan: scan_tokens run step by step on every short source            *)
(***************************************************************************)
MaxLen == 3

ScanAlphabet == {"o", "r", "A", "_", "1", ".", "\"", "\n", "/", "=", "@"}

RECURSIVE SeqsUpTo(_, _)
SeqsUpTo(S, n) ==
  IF n = 0 THEN {<< >>}
  ELSE LET shorter == SeqsUpTo(S, n - 1)
       IN shorter \cup {Append(s, c) : s \in {x \in shorter : Len(x) = n - 1},
                                       c \in S}

ScanSources == SeqsUpTo(ScanAlphabet, MaxLen)

InitScan ==
  /\ scanner = NewScanner(NewLox, << >>)
  /\ scan_pc = "idle"
  /\ pc = "scan"
  /\ Constructed

Scan ==
  /\ scan_pc = "idle"
  /\ \E src \in ScanSources : scanner' = NewScanner(NewLox, src)
  /\ scan_pc' = "loop"
  /\ UNCHANGED << lox, interpreter, resolver, pc, line, nlines, op, result,
                  nops,
                  parser, parsed >>

ScanToken ==
  /\ scan_pc = "loop"
  /\ ~is_at_end(scanner)
  /\ scanner' = scan_step(scanner)
  /\ UNCHANGED << scan_pc, lox, interpreter, resolver, pc, line, nlines, op,
                  result, nops,
                  parser, parsed >>

ScanEOF ==
  /\ scan_pc = "loop"
  /\ is_at_end(scanner)
  /\ scanner' = scan_eof(scanner)
  /\ scan_pc' = "done"
  /\ UNCHANGED << lox, interpreter, resolver, pc, line, nlines, op, result,
                  nops,
                  parser, parsed >>

NextScan == Scan \/ ScanToken \/ ScanEOF

SpecScan == InitScan /\ [][NextScan]_vars

(***************************************************************************)
(* Spec: main() running a file, or the REPL reading up to MaxLines lines,  *)
(* over a set of programs                                                  *)
(***************************************************************************)
MaxLines == 2

(* var a = "global"; { var a = "local"; print a; } print a;             *)
ShadowProgram ==
  << "v", "a", "r", " ", "a", " ", "=", " ", "\"", "g", "l", "o", "b", "a",
     "l", "\"", ";", " ", "{", " ", "v", "a", "r", " ", "a", " ", "=", " ",
     "\"", "l", "o", "c", "a", "l", "\"", ";", " ", "p", "r", "i", "n", "t",
     " ", "a", ";", " ", "}", " ", "p", "r", "i", "n", "t", " ", "a", ";" >>

(* fun mk() { var i = 0; fun inc() { i = i + 1; return i; } return inc; *)
(* } var c1 = mk(); var c2 = mk(); print c1(); print c1(); print c2();  *)
CounterProgram ==
  << "f", "u", "n", " ", "m", "k", "(", ")", " ", "{", " ", "v", "a", "r",
     " ", "i", " ", "=", " ", "0", ";", " ", "f", "u", "n", " ", "i", "n",
     "c", "(", ")", " ", "{", " ", "i", " ", "=", " ", "i", " ", "+", " ",
     "1", ";", " ", "r", "e", "t", "u", "r", "n", " ", "i", ";", " ", "}",
     " ", "r", "e", "t", "u", "r", "n", " ", "i", "n", "c", ";", " ", "}",
     " ", "v", "a", "r", " ", "c", "1", " ", "=", " ", "m", "k", "(", ")",
     ";", " ", "v", "a", "r", " ", "c", "2", " ", "=", " ", "m", "k", "(",
     ")", ";", " ", "p", "r", "i", "n", "t", " ", "c", "1", "(", ")", ";",
     " ", "p", "r", "i", "n", "t", " ", "c", "1", "(", ")", ";", " ", "p",
     "r", "i", "n", "t", " ", "c", "2", "(", ")", ";" >>

(* print 1; return;                                                     *)
ReturnProgram ==
  << "p", "r", "i", "n", "t", " ", "1", ";", " ", "r", "e", "t", "u", "r",
     "n", ";" >>

(* { var d = 1; var d = 2; print d; }                                   *)
DuplicateProgram ==
  << "{", " ", "v", "a", "r", " ", "d", " ", "=", " ", "1", ";", " ", "v",
     "a", "r", " ", "d", " ", "=", " ", "2", ";", " ", "p", "r", "i", "n",
     "t", " ", "d", ";", " ", "}" >>

(* print 1; var g = 5; print ;                                          *)
ParseErrorProgram ==
  << "p", "r", "i", "n", "t", " ", "1", ";", " ", "v", "a", "r", " ", "g",
     " ", "=", " ", "5", ";", " ", "p", "r", "i", "n", "t", " ", ";" >>

(* print 2; var g = 6; print "abc                                       *)
ScanErrorProgram ==
  << "p", "r", "i", "n", "t", " ", "2", ";", " ", "v", "a", "r", " ", "g",
     " ", "=", " ", "6", ";", " ", "p", "r", "i", "n", "t", " ", "\"", "a",
     "b", "c" >>

(* fun f(a, b) { print a; } f(1, 2, 3);                                 *)
ArityProgram ==
  << "f", "u", "n", " ", "f", "(", "a", ",", " ", "b", ")", " ", "{", " ",
     "p", "r", "i", "n", "t", " ", "a", ";", " ", "}", " ", "f", "(", "1",
     ",", " ", "2", ",", " ", "3", ")", ";" >>

(* var g = 1; print g;                                                  *)
DefineProgram ==
  << "v", "a", "r", " ", "g", " ", "=", " ", "1", ";", " ", "p", "r", "i",
     "n", "t", " ", "g", ";" >>

(* print g;                                                             *)
ReadProgram ==
  << "p", "r", "i", "n", "t", " ", "g", ";" >>

(* var g = g + 1;                                                       *)
IncrementProgram ==
  << "v", "a", "r", " ", "g", " ", "=", " ", "g", " ", "+", " ", "1", ";" >>

(* g = 2;                                                               *)
AssignProgram ==
  << "g", " ", "=", " ", "2", ";" >>

(* print 1 or 2;                                                        *)
LogicalProgram ==
  << "p", "r", "i", "n", "t", " ", "1", " ", "o", "r", " ", "2", ";" >>

(* print 1; { print 2; -"s"; print 3; } print 4;                        *)
AbortProgram ==
  << "p", "r", "i", "n", "t", " ", "1", ";", " ", "{", " ", "p", "r", "i",
     "n", "t", " ", "2", ";", " ", "-", "\"", "s", "\"", ";", " ", "p", "r",
     "i", "n", "t", " ", "3", ";", " ", "}", " ", "p", "r", "i", "n", "t",
     " ", "4", ";" >>

Sources ==
  {ShadowProgram, CounterProgram, ReturnProgram, DuplicateProgram,
   ParseErrorProgram, ScanErrorProgram, ArityProgram, DefineProgram,
   ReadProgram, IncrementProgram, AssignProgram, LogicalProgram,
   AbortProgram}

Init ==
  /\ scanner = NewScanner(NewLox, << >>)
  /\ scan_pc = "idle"
  /\ pc = "main"
  /\ Constructed

(* main with a file argument: run_file, which runs the source and exits   *)
(* with 65 after a compile error and with 70 after a runtime error        *)
RunFile ==
  /\ pc = "main"
  /\ \E source \in Sources :
       \E r \in {Lox_run(lox, interpreter, source)} :
       /\ line' = source
       /\ lox' = r.lox
       /\ interpreter' = r.I
       /\ pc' = IF r.st # "ok" THEN "crashed"
                ELSE IF r.lox.has_error THEN "exit65"
                ELSE IF r.lox.has_runtime_error THEN "exit70"
                ELSE "exit0"
  /\ UNCHANGED << scanner, scan_pc, resolver, nlines, op, result, nops,
                  parser, parsed >>

(* main without a file argument *)
Repl ==
  /\ pc = "main"
  /\ pc' = "prompt"
  /\ UNCHANGED << scanner, scan_pc, lox, interpreter, resolver, line, nlines,
                  op, result, nops,
                  parser, parsed >>

(* repl: line = self._repl_prompt(); self.run(line) *)
ReplRun ==
  /\ pc = "prompt"
  /\ nlines < MaxLines
  /\ \E source \in Sources :
       \E r \in {Lox_run(lox, interpreter, source)} :
       /\ line' = source
       /\ lox' = r.lox
       /\ interpreter' = r.I
       /\ pc' = IF r.st # "ok" THEN "crashed" ELSE "ran"
  /\ nlines' = nlines + 1
  /\ UNCHANGED << scanner, scan_pc, resolver, op, result, nops,
                  parser, parsed >>

(* repl: self.has_error = False, and around the loop *)
ReplReset ==
  /\ pc = "ran"
  /\ lox' = [lox EXCEPT !.has_error = FALSE]
  /\ pc' = "prompt"
  /\ UNCHANGED << scanner, scan_pc, interpreter, resolver, line, nlines, op,
                  result, nops,
                  parser, parsed >>

Next == RunFile \/ Repl \/ ReplRun \/ ReplReset

Spec == Init /\ [][Next]_vars

(***************************************************************************)
(* SpecResolve: the VariableResolver applied to the statements of every    *)
(* program of up to MaxSnippets pieces that parses without an error        *)
(***************************************************************************)
MaxSnippets == 4

(* var a = 1;                                                           *)
SnipVar ==
  << "v", "a", "r", " ", "a", " ", "=", " ", "1", ";" >>

(* var a = a;                                                           *)
SnipSelf ==
  << "v", "a", "r", " ", "a", " ", "=", " ", "a", ";" >>

(* print a;                                                             *)
SnipRead ==
  << "p", "r", "i", "n", "t", " ", "a", ";" >>

(* {                                                                    *)
SnipOpen ==
  << "{" >>

(* }                                                                    *)
SnipClose ==
  << "}" >>

(* return;                                                              *)
SnipReturn ==
  << "r", "e", "t", "u", "r", "n", ";" >>

Snippets == {SnipVar, SnipSelf, SnipRead, SnipOpen, SnipClose, SnipReturn}

(* the pieces of a program, each followed by a blank *)
RECURSIVE Join(_)
Join(pieces) ==
  IF pieces = << >> THEN << >>
  ELSE pieces[1] \o << " " >> \o Join(Tail(pieces))

ResolveSources == {Join(pieces) : pieces \in SeqsUpTo(Snippets, MaxSnippets)}

InitResolve ==
  /\ scanner = NewScanner(NewLox, << >>)
  /\ scan_pc = "idle"
  /\ pc = "source"
  /\ Constructed

(* statements = parser.parse(lox, source) *)
ParseSource ==
  /\ pc = "source"
  /\ \E source \in ResolveSources :
       \E statements \in {parse(lox, source)} :
       /\ line' = source
       /\ lox' = statements.p.lox
       /\ resolver' = [resolver EXCEPT !.lox = statements.p.lox]
       /\ pc' = IF statements.st # "ok" THEN "crashed"
                ELSE IF statements.p.lox.has_error THEN "rejected"
                ELSE "parsed"
  /\ UNCHANGED << scanner, scan_pc, interpreter, nlines, op, result, nops,
                  parser, parsed >>

(* VariableResolver(lox, interpreter).resolve_statements(statements) *)
Resolve ==
  /\ pc = "parsed"
  /\ \E r \in {resolve_statements(resolver, parse(NewLox, line).node)} :
     /\ resolver' = r.Z
     /\ lox' = r.Z.lox
     /\ interpreter' = r.Z.I
     /\ pc' = IF r.st = "ok" THEN "resolved" ELSE "crashed"
     /\ result' = [NoResult EXCEPT !.st = r.st, !.exc = r.exc]
  /\ UNCHANGED << scanner, scan_pc, line, nlines, op, nops,
                  parser, parsed >>

NextResolve == ParseSource \/ Resolve

SpecResolve == InitResolve /\ [][NextResolve]_vars

(***************************************************************************)
(* SpecObj: a caller of the interpreter's classes.  The callables are      *)
(* built by their constructors (LoxFunction(...), LoxClass(...)) and are   *)
(* bound in the global environment; the caller then has the Interpreter    *)
(* evaluate call expressions on them, up to MaxOps operations with up to   *)
(* MaxArgs arguments.                                                      *)
(***************************************************************************)
MaxOps == 2
MaxArgs == 2

Ident(name) == Token("IDENTIFIER", name, None, 1)
Paren == Token("RIGHT_PAREN", << ")" >>, None, 1)
ReturnKeyword == Token("RETURN", << "r", "e", "t", "u", "r", "n" >>, None, 1)
ThisKeyword == Token("THIS", THIS, None, 1)

NameA == << "a" >>
NameB == << "b" >>
NameM == << "m" >>
NameN == << "n" >>
NameX == << "x" >>
NameClock == << "c", "l", "o", "c", "k" >>
NameF0 == << "F", "0" >>
NameF2 == << "F", "2" >>
NamePlain == << "P", "l", "a", "i", "n" >>
NameInit0 == << "I", "n", "i", "t", "0" >>
NameInitRet == << "I", "n", "i", "t", "R", "e", "t" >>
NameInit1 == << "I", "n", "i", "t", "1" >>
NameSub == << "S", "u", "b" >>
NameBase == << "B", "a", "s", "e" >>

PrintName(name) == PrintStmt(Literal(Str(name)))

(* fun F0() { print "F0"; }  and  fun F2(a, b) { print "F2"; } *)
DeclF0 == FunctionDecl(Ident(NameF0), << >>, << PrintName(NameF0) >>)
DeclF2 ==
  FunctionDecl(Ident(NameF2), << Ident(NameA), Ident(NameB) >>,
               << PrintName(NameF2) >>)

(* init() { print "init"; },  init() { print "init"; return; }  and       *)
(* init(a) { print "init"; }                                               *)
DeclInit0 == FunctionDecl(Ident(INIT), << >>, << PrintName(INIT) >>)
DeclInitRet ==
  FunctionDecl(Ident(INIT), << >>,
               << PrintName(INIT), ReturnStmt(ReturnKeyword, NoneNode) >>)
DeclInit1 ==
  FunctionDecl(Ident(INIT), << Ident(NameA) >>, << PrintName(INIT) >>)

(* LoxClass(name, superclass, {'init': LoxFunction(decl, globals, True)}) *)
ClassWithInit(name, decl) ==
  LoxClass(name, None, (INIT :> LoxFunction(decl, 1, TRUE)))

ClassInit1 == ClassWithInit(NameInit1, DeclInit1)

ObjGlobals ==
  (NameF0 :> LoxFunction(DeclF0, 1, FALSE))
  @@ (NameF2 :> LoxFunction(DeclF2, 1, FALSE))
  @@ (NamePlain :> LoxClass(NamePlain, None, EmptyDict))
  @@ (NameInit0 :> ClassWithInit(NameInit0, DeclInit0))
  @@ (NameInitRet :> ClassWithInit(NameInitRet, DeclInitRet))
  @@ (NameInit1 :> ClassInit1)
  @@ (NameSub :> LoxClass(NameSub, ClassInit1, EmptyDict))

ObjCallees ==
  {NameClock, NameF0, NameF2, NamePlain, NameInit0, NameInitRet, NameInit1,
   NameSub}

ObjClasses == {NamePlain, NameInit0, NameInitRet, NameInit1, NameSub}

(* the arguments 1, 2, ..., n *)
Arguments(n) == [i \in 1..n |-> Literal(Num(i * Scale))]

(* name(1, ..., n) *)
CallExpr(name, n) == Call(Variable(Ident(name)), Paren, Arguments(n))

(* var x = name(1, ..., n); *)
NewStmt(name, n) == VarDecl(Ident(NameX), CallExpr(name, n))

(* x.init(1, ..., n) *)
InitExpr(n) ==
  Call(Get(Variable(Ident(NameX)), Ident(INIT)), Paren, Arguments(n))

(* class Base { m() { return this.n(); } n() { return "Base"; } }         *)
(* class Sub < Base { n() { return "Sub"; } }                             *)
(* print Sub().m();                                                        *)
MethodReturning(name, expr) ==
  FunctionDecl(Ident(name), << >>, << ReturnStmt(ReturnKeyword, expr) >>)

DispatchProgram ==
  << Class(Ident(NameBase), NoneNode,
           << MethodReturning(NameM,
                Call(Get(This(ThisKeyword), Ident(NameN)), Paren, << >>)),
              MethodReturning(NameN, Literal(Str(NameBase))) >>),
     Class(Ident(NameSub), Variable(Ident(NameBase)),
           << MethodReturning(NameN, Literal(Str(NameSub))) >>),
     PrintStmt(Call(Get(CallExpr(NameSub, 0), Ident(NameM)), Paren, << >>)) >>

InitObj ==
  /\ scanner = NewScanner(NewLox, << >>)
  /\ scan_pc = "idle"
  /\ pc = "caller"
  /\ lox = NewLox
  /\ interpreter = [NewInterpreter EXCEPT !.heap[1].values = ObjGlobals @@ @]
  /\ resolver = NewVariableResolver(NewLox, NewInterpreter)
  /\ line = << >>
  /\ nlines = 0
  /\ op = NoOp
  /\ result = NoResult
  /\ nops = 0
  /\ parser = NewParser(NewLox, << >>)
  /\ parsed = << >>

Outcome(r) == [st |-> r.st, val |-> r.val, err |-> r.err, exc |-> r.exc]

(* interpreter.evaluate(expr) for the call name(1, ..., n) *)
EvaluateCall ==
  /\ pc = "caller"
  /\ nops < MaxOps
  /\ \E name \in ObjCallees, n \in 0..MaxArgs :
       \E r \in {evaluate(interpreter, CallExpr(name, n))} :
       /\ op' = [kind |-> "call", name |-> name, nargs |-> n]
       /\ interpreter' = r.I
       /\ result' = Outcome(r)
       /\ pc' = IF r.st = "crash" THEN "crashed" ELSE "caller"
  /\ nops' = nops + 1
  /\ UNCHANGED << scanner, scan_pc, lox, resolver, line, nlines,
                  parser, parsed >>

(* interpreter.execute(stmt) for var x = name(1, ..., n); *)
ExecuteNew ==
  /\ pc = "caller"
  /\ nops < MaxOps
  /\ \E name \in ObjClasses, n \in 0..MaxArgs :
       \E r \in {execute(interpreter, NewStmt(name, n))} :
       /\ op' = [kind |-> "new", name |-> name, nargs |-> n]
       /\ interpreter' = r.I
       /\ result' = Outcome(r)
       /\ pc' = IF r.st = "crash" THEN "crashed" ELSE "caller"
  /\ nops' = nops + 1
  /\ UNCHANGED << scanner, scan_pc, lox, resolver, line, nlines,
                  parser, parsed >>

(* interpreter.evaluate(expr) for the call x.init(1, ..., n) *)
EvaluateInit ==
  /\ pc = "caller"
  /\ nops < MaxOps
  /\ \E n \in 0..MaxArgs :
       \E r \in {evaluate(interpreter, InitExpr(n))} :
       /\ op' = [kind |-> "init", name |-> NameX, nargs |-> n]
       /\ interpreter' = r.I
       /\ result' = Outcome(r)
       /\ pc' = IF r.st = "crash" THEN "crashed" ELSE "caller"
  /\ nops' = nops + 1
  /\ UNCHANGED << scanner, scan_pc, lox, resolver, line, nlines,
                  parser, parsed >>

(* interpreter.interpret(statements) for the class declarations *)
InterpretClasses ==
  /\ pc = "caller"
  /\ nops < MaxOps
  /\ \E r \in {interpret(lox, interpreter, DispatchProgram)} :
     /\ op' = [kind |-> "classes", name |-> NameSub, nargs |-> 0]
     /\ interpreter' = r.I
     /\ lox' = r.lox
     /\ result' = [NoResult EXCEPT !.st = r.st, !.exc = r.exc]
     /\ pc' = IF r.st = "crash" THEN "crashed" ELSE "caller"
  /\ nops' = nops + 1
  /\ UNCHANGED << scanner, scan_pc, resolver, line, nlines,
                  parser, parsed >>

NextObj == EvaluateCall \/ ExecuteNew \/ EvaluateInit \/ InterpretClasses

SpecObj == InitObj /\ [][NextObj]_vars

(***************************************************************************)
(* SpecParse: parser.parse(lox, source) with the loop of Parser.parse run  *)
(* one declaration at a time, over sources made of up to MaxPieces         *)
(* statements and the for loops with each clause present or omitted       *)
(***************************************************************************)
MaxPieces == 2

(* print +                                                              *)
SnipBroken ==
  << "p", "r", "i", "n", "t", " ", "+" >>

(* print a b;                                                           *)
SnipBrokenSemi ==
  << "p", "r", "i", "n", "t", " ", "a", " ", "b", ";" >>

(* for (;; a) print a;                                                  *)
SnipFor ==
  << "f", "o", "r", " ", "(", ";", ";", " ", "a", ")", " ", "p", "r", "i",
     "n", "t", " ", "a", ";" >>

(* while (a) print a;                                                   *)
SnipWhile ==
  << "w", "h", "i", "l", "e", " ", "(", "a", ")", " ", "p", "r", "i", "n",
     "t", " ", "a", ";" >>

(* if (a) print a;                                                      *)
SnipIf ==
  << "i", "f", " ", "(", "a", ")", " ", "p", "r", "i", "n", "t", " ", "a",
     ";" >>

(* fun f() {}                                                           *)
SnipFun ==
  << "f", "u", "n", " ", "f", "(", ")", " ", "{", "}" >>

(* class                                                                *)
SnipClass ==
  << "c", "l", "a", "s", "s" >>

ParsePieces ==
  {SnipBroken, SnipBrokenSemi, SnipFor, SnipWhile, SnipIf, SnipFun, SnipClass,
   SnipVar, SnipRead, SnipReturn}

PieceSources == {Join(pieces) : pieces \in SeqsUpTo(ParsePieces, MaxPieces)}

(* for (                                                                *)
ForOpen ==
  << "f", "o", "r", " ", "(" >>

(* var i = 0;                                                           *)
ForVar ==
  << "v", "a", "r", " ", "i", " ", "=", " ", "0", ";" >>

(* i = 0;                                                               *)
ForExpr ==
  << "i", " ", "=", " ", "0", ";" >>

(* ;                                                                    *)
ForSemicolon ==
  << ";" >>

(* i < 2                                                                *)
ForCond ==
  << "i", " ", "<", " ", "2" >>

(* i = i + 1                                                            *)
ForIncr ==
  << "i", " ", "=", " ", "i", " ", "+", " ", "1" >>

(* print i;                                                           *)
ForBody ==
  << "p", "r", "i", "n", "t", " ", "i", ";" >>

(* for (init cond; incr) print i; with init one of ; var i = 0; i = 0;   *)
ForSource(init, cond, incr) ==
  Join(<< ForOpen, init, cond, ForSemicolon, incr, << ")" >>, ForBody >>)

ForSources ==
  {ForSource(init, cond, incr) : init \in {ForSemicolon, ForVar, ForExpr},
                                 cond \in {<< >>, ForCond},
                                 incr \in {<< >>, ForIncr}}

ParseSources == PieceSources \cup ForSources

InitParse ==
  /\ scanner = NewScanner(NewLox, << >>)
  /\ scan_pc = "idle"
  /\ pc = "source"
  /\ Constructed

(* parse: parser = Parser(lox, list(scanner.scan(lox, source_string))),   *)
(* and statements = [] in Parser.parse                                     *)
NewParse ==
  /\ pc = "source"
  /\ \E source \in ParseSources :
       \E sc \in {scan(lox, source)} :
       /\ line' = source
       /\ lox' = sc.lox
       /\ parser' = NewParser(sc.lox, sc.tokens)
  /\ parsed' = << >>
  /\ pc' = "parse"
  /\ UNCHANGED << scanner, scan_pc, interpreter, resolver, nlines, op, result,
                  nops >>

(* Parser.parse: one iteration of the loop *)
ParseDeclaration ==
  /\ pc = "parse"
  /\ ~Parser_is_at_end(parser)
  /\ \E d \in {declaration(parser)} :
       /\ parser' = d.p
       /\ lox' = d.p.lox
       /\ parsed' = IF d.st = "ok" THEN Append(parsed, d.node) ELSE parsed
       /\ pc' = IF d.st = "ok" THEN "parse" ELSE "crashed"
  /\ UNCHANGED << scanner, scan_pc, interpreter, resolver, line, nlines, op,
                  result, nops >>

(* Parser.parse: return statements *)
ParseReturn ==
  /\ pc = "parse"
  /\ Parser_is_at_end(parser)
  /\ pc' = "parsed"
  /\ UNCHANGED << scanner, scan_pc, lox, interpreter, resolver, line, nlines,
                  op, result, nops, parser, parsed >>

NextParse == NewParse \/ ParseDeclaration \/ ParseReturn

SpecParse == InitParse /\ [][NextParse]_vars


(***************************************************************************)
(* SpecList: Parser.function and Parser.finish_call on a parameter list    *)
(* and on an argument list of about MaxListEntries entries, the while      *)
(* loop over the commas run one iteration at a time                        *)
(***************************************************************************)
ListToken(type, lexeme) == Token(type, lexeme, None, 1)

(* n copies of the token tok separated by commas *)
CommaSeparated(n, tok) ==
  [i \in 1..(2 * n - 1) |->
     IF i % 2 = 1 THEN tok ELSE ListToken("COMMA", << "," >>)]

(* the tokens of f(a,...,a){} after the keyword fun, with n parameters *)
ParameterTokens(n) ==
  << ListToken("IDENTIFIER", << "f" >>), ListToken("LEFT_PAREN", << "(" >>) >>
    \o CommaSeparated(n, ListToken("IDENTIFIER", << "a" >>))
    \o << ListToken("RIGHT_PAREN", << ")" >>),
          ListToken("LEFT_BRACE", << "{" >>),
          ListToken("RIGHT_BRACE", << "}" >>),
          ListToken("EOF", << >>) >>

(* the tokens of f(1,...,1); with n arguments *)
ArgumentTokens(n) ==
  << ListToken("IDENTIFIER", << "f" >>), ListToken("LEFT_PAREN", << "(" >>) >>
    \o CommaSeparated(n, Token("NUMBER", << "1" >>, Num(Scale), 1))
    \o << ListToken("RIGHT_PAREN", << ")" >>),
          ListToken("SEMICOLON", << ";" >>),
          ListToken("EOF", << >>) >>

ListLengths ==
  {0, 1, 2, MaxListEntries - 1, MaxListEntries, MaxListEntries + 1}

InitList ==
  /\ scanner = NewScanner(NewLox, << >>)
  /\ scan_pc = "idle"
  /\ pc = "tokens"
  /\ Constructed

(* Parser(lox, tokens), placed where the method is called: function after *)
(* the keyword fun, finish_call after the callee and the parenthesis      *)
NewListParser ==
  /\ pc = "tokens"
  /\ \E n \in ListLengths :
       \/ /\ parser' = NewParser(lox, ParameterTokens(n))
          /\ op' = [kind |-> "function", name |-> << >>, nargs |-> n]
       \/ /\ parser' = [NewParser(lox, ArgumentTokens(n)) EXCEPT !.current = 2]
          /\ op' = [kind |-> "finish_call", name |-> << >>, nargs |-> n]
  /\ parsed' = << >>
  /\ pc' = "called"
  /\ UNCHANGED << scanner, scan_pc, lox, interpreter, resolver, line, nlines,
                  result, nops >>

(* function, finish_call: up to the first append *)
ListBegin ==
  /\ pc = "called"
  /\ \E head \in {IF op.kind = "function"
                  THEN function_head(parser, "function")
                  ELSE Ok(parser, << >>)} :
     \E first \in {IF head.st # "ok" THEN head
                   ELSE IF Parser_check(head.p, "RIGHT_PAREN")
                   THEN Ok(head.p, << >>)
                   ELSE IF op.kind = "function"
                   THEN parameters_step(head.p, << >>)
                   ELSE arguments_step(head.p, << >>)} :
       /\ parser' = first.p
       /\ lox' = first.p.lox
       /\ parsed' = IF first.st = "ok" THEN first.node ELSE parsed
       /\ op' = [op EXCEPT !.name = head.node]
       /\ pc' = IF first.st = "ok" THEN "list" ELSE "failed"
  /\ UNCHANGED << scanner, scan_pc, interpreter, resolver, line, nlines,
                  result, nops >>

(* function, finish_call: one iteration of while self.match(COMMA) *)
ListIteration ==
  /\ pc = "list"
  /\ Parser_match(parser, {"COMMA"})
  /\ \E s \in {IF op.kind = "function"
               THEN parameters_step(Parser_advance(parser), parsed)
               ELSE arguments_step(Parser_advance(parser), parsed)} :
       /\ parser' = s.p
       /\ lox' = s.p.lox
       /\ parsed' = IF s.st = "ok" THEN s.node ELSE parsed
       /\ pc' = IF s.st = "ok" THEN "list" ELSE "failed"
  /\ UNCHANGED << scanner, scan_pc, interpreter, resolver, line, nlines, op,
                  result, nops >>

(* function, finish_call: after the loop, to the return of the node *)
ListEnd ==
  /\ pc = "list"
  /\ ~Parser_match(parser, {"COMMA"})
  /\ \E r \in {IF op.kind = "function"
               THEN function_tail(parser, "function", op.name, parsed)
               ELSE finish_call_tail(parser, Variable(parser.tokens[1]),
                                     parsed)} :
       /\ parser' = r.p
       /\ lox' = r.p.lox
       /\ result' = [NoResult EXCEPT !.st = r.st, !.val = r.node]
       /\ pc' = IF r.st = "ok" THEN "returned" ELSE "failed"
  /\ UNCHANGED << scanner, scan_pc, interpreter, resolver, line, nlines, op,
                  nops, parsed >>

NextList == NewListParser \/ ListBegin \/ ListIteration \/ ListEnd

SpecList == InitList /\ [][NextList]_vars

(***************************************************************************)
(* Claims about a run of Lox (Spec)                                        *)
(***************************************************************************)
(* a step in which run_file or the REPL ran the source line' *)
RunStep ==
  /\ pc \in {"main", "prompt"}
  /\ pc' \in {"ran", "crashed", "exit0", "exit65", "exit70"}

(* C1: lexical shadowing through Lox.run: running                         *)
(* var a = "global"; { var a = "local"; print a; } print a;               *)
(* prints local and then global: the read inside the block that declares  *)
(* a reads the block's binding, the read after the block the outer one.   *)
C1_LexicalShadowing ==
  [][(RunStep /\ line' = ShadowProgram) =>
       interpreter'.out = interpreter.out
                            \o << << "l", "o", "c", "a", "l" >>,
                                  << "g", "l", "o", "b", "a", "l" >> >>]_vars

(* C2: closure capture: running the counter program, in which mk returns  *)
(* a function that increments and returns a variable local to the call of *)
(* mk, prints 1 and 2 for two calls of the first counter and 1 for the    *)
(* call of a second counter made by a separate call of mk.                *)
C2_ClosureCounters ==
  [][(RunStep /\ line' = CounterProgram) =>
       interpreter'.out = interpreter.out
                            \o << << "1" >>, << "2" >>, << "1" >> >>]_vars

(* the diagnostics the scanner and the parser sent to the sink in a step *)
CompileErrorReported ==
  \E i \in (Len(lox.diags) + 1)..Len(lox'.diags) :
    "where" \in DOMAIN lox'.diags[i]

(* C7: a run in which the scanner or the parser reports an error executes *)
(* nothing: interpret is not called for that source, no statement is      *)
(* executed, nothing is printed and no global is defined or changed.      *)
C7_CompileErrorRunsNothing ==
  [][(RunStep /\ CompileErrorReported) =>
       /\ interpreter'.ninterpret = interpreter.ninterpret
       /\ interpreter'.nexec = interpreter.nexec
       /\ interpreter'.out = interpreter.out
       /\ interpreter'.heap = interpreter.heap
       /\ interpreter' = interpreter]_vars

(* a REPL line with a statement that parses, a declaration of g and then  *)
(* a syntax error was run, after an earlier line, and g is not defined    *)
C7_Witness ==
  /\ pc = "ran"
  /\ nlines = 2
  /\ line = ParseErrorProgram
  /\ lox.has_error
  /\ << "g" >> \notin DOMAIN interpreter.heap[interpreter.globals].values

ParsesClean(source) ==
  LET statements == parse(NewLox, source) IN
  statements.st = "ok" /\ ~statements.p.lox.has_error

(* what the resolver reports on the statements of a source *)
ResolverReports(source) ==
  resolve_statements(NewVariableResolver(NewLox, NewInterpreter),
                     parse(NewLox, source).node).Z.lox.has_error

(* C8: resolver errors halt execution: when a program parses without an   *)
(* error and the resolver reports an error on it (a duplicate declaration *)
(* in a local scope, a return at top level, ...), Lox.run executes no     *)
(* statement of it.                                                       *)
C8_ResolverErrorRunsNothing ==
  [][(RunStep /\ ParsesClean(line') /\ ResolverReports(line')) =>
       interpreter'.nexec = interpreter.nexec]_vars

(***************************************************************************)
(* Claims about the resolver (SpecResolve)                                 *)
(***************************************************************************)
(* var a = 1; { var a = a; } *)
SelfReferenceProgram == Join(<< SnipVar, SnipOpen, SnipSelf, SnipClose >>)

(* var a = 1; { print a; } *)
OuterReadProgram == Join(<< SnipVar, SnipOpen, SnipRead, SnipClose >>)

(* C3: resolving var a = a; inside a local scope, with an a declared in   *)
(* an enclosing scope, reports "Can't read local variable in its own      *)
(* initializer" to the sink, records no distance to the outer a and       *)
(* raises nothing; and resolving a read, inside a local scope, of a name  *)
(* the innermost scope does not declare reports no error and raises       *)
(* nothing.                                                               *)
C3_SelfReferenceInInitializer ==
  /\ (pc \in {"resolved", "crashed"} /\ line = SelfReferenceProgram) =>
       /\ pc = "resolved"
       /\ \E i \in 1..Len(lox.diags) :
            lox.diags[i].message
              = << "Can't read local variable in its own initializer" >>
       /\ \A expr \in DOMAIN interpreter.locals : interpreter.locals[expr] = 0
  /\ (pc \in {"resolved", "crashed"} /\ line = OuterReadProgram) =>
       /\ pc = "resolved"
       /\ lox.diags = << >>

(***************************************************************************)
(* Claims about calls (SpecObj)                                            *)
(***************************************************************************)
(* C4: the call of a bound init method returns the instance bound as      *)
(* this, whether its body ends without a return or executes return; and   *)
(* the call of a class returns the instance it has just created.          *)
C4_InitializerReturnsThis ==
  /\ (op.kind = "init" /\ result.st = "ok") =>
       result.val = interpreter.heap[interpreter.globals].values[<< "x" >>]
  /\ (op.kind = "call" /\ op.name \in ObjClasses /\ result.st = "ok") =>
       /\ result.val = LoxInstanceRef(Len(interpreter.instances))
       /\ interpreter.instances[Len(interpreter.instances)].klass
            = ObjGlobals[op.name]

(* C5: with class Base { m() { return this.n(); } n() { ... } } and       *)
(* class Sub < Base { n() { ... } }, the call of m on an instance of Sub   *)
(* executes the n of Sub: the program that declares both classes and      *)
(* prints Sub().m() prints what the n of Sub returns.                     *)
C5_InheritanceDispatch ==
  op.kind = "classes" =>
    /\ result.st = "ok"
    /\ interpreter.out # << >>
    /\ interpreter.out[Len(interpreter.out)] = << "S", "u", "b" >>

(* the init a class finds, in itself first and then up its superclasses *)
RECURSIVE InitOf(_)
InitOf(klass) ==
  IF INIT \in DOMAIN klass.methods THEN klass.methods[INIT]
  ELSE IF klass.superclass # None THEN InitOf(klass.superclass)
  ELSE None

ExpectedArity(callee) ==
  CASE callee.t = "Clock" -> 0
    [] callee.t = "LoxFunction" -> Len(callee.declaration.params)
    [] callee.t = "LoxClass" ->
         IF InitOf(callee) = None THEN 0
         ELSE Len(InitOf(callee).declaration.params)

(* the callable an operation calls in the interpreter I: the value of the *)
(* global it names or, for x.init, the init of the class of x; None when  *)
(* there is no such callable                                              *)
CalleeOf(o, I) ==
  LET globals == I.heap[I.globals].values IN
  IF o.name \notin DOMAIN globals THEN None
  ELSE IF o.kind # "init" THEN globals[o.name]
  ELSE IF globals[o.name].t # "LoxInstance" THEN None
  ELSE InitOf(I.instances[globals[o.name].id].klass)

(* C6: a call whose number of arguments differs from the arity of the     *)
(* callee (for a class the arity of its init, 0 without one) raises a     *)
(* runtime error whose message names the expected and the actual number,  *)
(* and the callee is not invoked: no call environment and no instance is  *)
(* created, no statement of a body is executed and nothing is printed.    *)
(* (Evaluating the callee x.init binds the method, which creates the      *)
(* environment holding this; executing var x = ...; counts one statement.) *)
C6_ArityMismatch ==
  [][(/\ nops' = nops + 1
      /\ op'.kind \in {"call", "new", "init"}
      /\ CalleeOf(op', interpreter) # None
      /\ op'.nargs # ExpectedArity(CalleeOf(op', interpreter))) =>
       /\ result'.st = "RuntimeError"
       /\ Len(result'.err.message) = 5
       /\ result'.err.message[1] = "Expected "
       /\ result'.err.message[2] = ExpectedArity(CalleeOf(op', interpreter))
       /\ result'.err.message[3] = " arguments but got "
       /\ result'.err.message[4] = op'.nargs
       /\ interpreter'.out = interpreter.out
       /\ interpreter'.instances = interpreter.instances
       /\ interpreter'.nexec
            = interpreter.nexec + (IF op'.kind = "new" THEN 1 ELSE 0)
       /\ Len(interpreter'.heap)
            = Len(interpreter.heap) + (IF op'.kind = "init" THEN 1 ELSE 0)
       /\ SubSeq(interpreter'.heap, 1, Len(interpreter.heap))
            = interpreter.heap]_vars

(* Sub, whose arity 1 is that of the init of its superclass, was called   *)
(* without an argument                                                    *)
C6_Witness ==
  /\ op.kind = "call"
  /\ op.name = NameSub
  /\ op.nargs = 0
  /\ result.st = "RuntimeError"
  /\ result.err.message
       = << "Expected ", 1, " arguments but got ", 0, "." >>

(***************************************************************************)
(* Claims about the scanner (SpecScan)                                     *)
(***************************************************************************)
EofPositions(toks) == {i \in 1..Len(toks) : toks[i].type = "EOF"}

(* C9: for every finite source scan_tokens terminates: every scan_token   *)
(* step consumes at least one character and never moves past the end of   *)
(* the source, so the loop runs at most Len(source) times and is followed *)
(* by the final step; the tokens yielded contain exactly one EOF token,   *)
(* which is the last one; for the empty source the result is exactly one  *)
(* EOF token with empty lexeme, no literal and line 1.                    *)
C9_ScanTerminatesWithOneEOF ==
  /\ [][scan_pc = "loop" =>
          \/ /\ scan_pc' = "loop"
             /\ scanner'.current > scanner.current
             /\ scanner'.current <= Len(scanner.source)
             /\ EofPositions(scanner'.tokens) = {}
          \/ /\ scan_pc' = "done"
             /\ scanner.current = Len(scanner.source)
             /\ EofPositions(scanner'.tokens) = {Len(scanner'.tokens)}
             /\ (scanner.source = << >> =>
                   scanner'.tokens = << Token("EOF", << >>, None, 1) >>)]_vars
  /\ [][scan_pc = "done" => scan_pc' = "done"]_vars

C9_Witness ==
  /\ scan_pc = "done"
  /\ scanner.source # << >>
  /\ Len(scanner.tokens) > 2

is_alpha_spec(c) ==
  \/ (Ord(c) >= Ord("a") /\ Ord(c) <= Ord("z"))
  \/ (Ord(c) >= Ord("A") /\ Ord(c) <= Ord("Z"))
  \/ c = "_"

IsIdentifierLexeme(s) ==
  /\ s # << >>
  /\ is_alpha_spec(s[1])
  /\ \A i \in 1..Len(s) : is_alpha_spec(s[i]) \/ is_digit(s[i])

(* C10: every lexeme ALPHA (ALPHA|DIGIT)*, ALPHA being a-z, A-Z or        *)
(* underscore, scanned in isolation yields exactly one token followed by   *)
(* EOF; the token spans the whole lexeme and has the keyword's kind when   *)
(* the lexeme is a reserved word and kind IDENTIFIER otherwise.            *)
C10_IdentifierScan ==
  (scan_pc = "done" /\ IsIdentifierLexeme(scanner.source)) =>
    /\ Len(scanner.tokens) = 2
    /\ scanner.tokens[1].lexeme = scanner.source
    /\ \A k \in Keywords :
         k.text = scanner.source => scanner.tokens[1].type = k.type
    /\ (\A k \in Keywords : k.text # scanner.source)
         => scanner.tokens[1].type = "IDENTIFIER"
    /\ scanner.tokens[2].type = "EOF"

(* the characters of the source outside quotes and comments that start no *)
(* token and are not whitespace; ScanAlphabet has one, the at sign         *)
HasIllegalCharacter(source) ==
  /\ \E i \in 1..Len(source) : source[i] = "@"
  /\ \A i \in 1..Len(source) : source[i] \notin {"\"", "/"}

(* the position of the quote that opens a string the source never closes, *)
(* 0 if there is none: the source has a single quote character, outside a *)
(* comment                                                                 *)
UnterminatedAt(source) ==
  LET quotes == {i \in 1..Len(source) : source[i] = "\""} IN
  IF Cardinality(quotes) = 1
     /\ \A i \in 1..Len(source) : source[i] # "/"
  THEN CHOOSE i \in quotes : TRUE
  ELSE 0

(* C11: lexical errors are reported and are not fatal: when the scan of a *)
(* source with an illegal character, or with an unterminated string, is   *)
(* done, a diagnostic has been sent to the sink and has_error is true,    *)
(* the whole source has been scanned and the tokens end with EOF; for an  *)
(* unterminated string the token before EOF is a STRING whose literal is  *)
(* the text after the opening quote.                                      *)
C11_LexicalErrorsReported ==
  /\ (scan_pc = "done" /\ HasIllegalCharacter(scanner.source)) =>
       /\ scanner.lox.has_error
       /\ scanner.lox.diags # << >>
       /\ scanner.current = Len(scanner.source)
       /\ scanner.tokens[Len(scanner.tokens)].type = "EOF"
  /\ (scan_pc = "done" /\ UnterminatedAt(scanner.source) > 0) =>
       /\ scanner.lox.has_error
       /\ scanner.lox.diags # << >>
       /\ scanner.current = Len(scanner.source)
       /\ scanner.tokens[Len(scanner.tokens)].type = "EOF"
       /\ Len(scanner.tokens) >= 2
       /\ scanner.tokens[Len(scanner.tokens) - 1].type = "STRING"
       /\ scanner.tokens[Len(scanner.tokens) - 1].literal
            = Str(SubSeq(scanner.source, UnterminatedAt(scanner.source) + 1,
                         Len(scanner.source)))

(* the unterminated-string half of C11 alone *)
C11_UnterminatedStringReported ==
  (scan_pc = "done" /\ UnterminatedAt(scanner.source) > 0) =>
       /\ scanner.lox.has_error
       /\ scanner.current = Len(scanner.source)
       /\ scanner.tokens[Len(scanner.tokens)].type = "EOF"
       /\ scanner.tokens[Len(scanner.tokens) - 1].type = "STRING"
       /\ scanner.tokens[Len(scanner.tokens) - 1].literal
            = Str(SubSeq(scanner.source, UnterminatedAt(scanner.source) + 1,
                         Len(scanner.source)))

(***************************************************************************)
(* Claims about the parser (SpecParse)                                     *)
(***************************************************************************)
StatementKeywords ==
  {"CLASS", "FUN", "VAR", "FOR", "IF", "WHILE", "PRINT", "RETURN"}

(* where the discarding that starts with current = c stops: at the end of *)
(* input, after a semicolon, or before a keyword that starts a statement  *)
RECURSIVE RecoveryPoint(_, _)
RecoveryPoint(tokens, c) ==
  IF tokens[c + 1].type = "EOF" THEN c
  ELSE IF c > 0 /\ tokens[c].type = "SEMICOLON" THEN c
  ELSE IF tokens[c + 1].type \in StatementKeywords THEN c
  ELSE RecoveryPoint(tokens, c + 1)

(* the token at which the declaration that starts at the parser's place  *)
(* raises a syntax error                                                   *)
RaisesSyntaxError == declaration_try(parser).st = "ParseError"
ErrorPlace == declaration_try(parser).p.current

(* C12: panic-mode recovery: when a declaration raises a syntax error,    *)
(* the parser consumes the offending token and then discards tokens until *)
(* the token just consumed is a semicolon or the next token is one of     *)
(* class fun var for if while print return, or EOF; the next declaration  *)
(* is parsed from there, so a for that follows the error is not           *)
(* discarded.                                                             *)
C12_PanicModeRecovery ==
  [][(pc = "parse" /\ pc' = "parse" /\ RaisesSyntaxError) =>
       /\ parser'.current
            = RecoveryPoint(parser.tokens,
                            IF parser.tokens[ErrorPlace + 1].type = "EOF"
                            THEN ErrorPlace ELSE ErrorPlace + 1)
       /\ parsed' = Append(parsed, NoneNode)]_vars

(* the node the parser makes of an expression, and of a statement, alone *)
ExpressionOf(text) == expression(NewParser(NewLox, scan(NewLox, text).tokens)).node
StatementOf(text) == declaration(NewParser(NewLox, scan(NewLox, text).tokens)).node

(* what the claim says for (init cond; incr) body becomes *)
Desugared(init, cond, incr) ==
  LET C == IF cond = << >> THEN Literal(Bool(TRUE)) ELSE ExpressionOf(cond)
      B == IF incr = << >> THEN StatementOf(ForBody)
           ELSE Block(<< StatementOf(ForBody),
                         ExpressionStmt(ExpressionOf(incr)) >>)
  IN IF init = ForSemicolon THEN While(C, B)
     ELSE Block(<< StatementOf(init), While(C, B) >>)

(* C13: for every for (init; cond; incr) body, each clause present or     *)
(* omitted, the parser reports no error and produces While(C, B), C being *)
(* cond or the literal true, B being body or Block([body,                 *)
(* ExpressionStmt(incr)]), inside Block([init, While]) exactly when init   *)
(* is present.                                                            *)
C13_ForDesugaring ==
  \A init \in {ForSemicolon, ForVar, ForExpr}, cond \in {<< >>, ForCond},
     incr \in {<< >>, ForIncr} :
    (pc = "parsed" /\ line = ForSource(init, cond, incr)) =>
      /\ lox.diags = << >>
      /\ parsed = << Desugared(init, cond, incr) >>

(* C13 for the loops that have an increment *)
C13_ForDesugaringWithIncrement ==
  \A init \in {ForSemicolon, ForVar, ForExpr}, cond \in {<< >>, ForCond} :
    (pc = "parsed" /\ line = ForSource(init, cond, ForIncr)) =>
      /\ lox.diags = << >>
      /\ parsed = << Desugared(init, cond, ForIncr) >>

(***************************************************************************)
(* Claims about parameter and argument lists (SpecList)                    *)
(***************************************************************************)
ListCapReported ==
  \E i \in 1..Len(lox.diags) :
    lox.diags[i].message
      \in {<< "Can't have more than 255 parameters." >>,
           << "Can't have more than 255 arguments." >>}

(* C14: parsing a parameter list or an argument list reports the more     *)
(* than 255 error if and only if the list has more than 255 entries, and  *)
(* parsing goes on without panic mode: the closing parenthesis is         *)
(* consumed and the FunctionDecl or Call node is returned with all the    *)
(* entries.                                                               *)
C14_ListCap ==
  (pc \in {"returned", "failed"} /\ op.kind \in {"function", "finish_call"}) =>
    /\ ListCapReported <=> op.nargs > MaxListEntries
    /\ pc = "returned"
    /\ result.st = "ok"
    /\ op.kind = "function" =>
         /\ result.val.node = "FunctionDecl"
         /\ Len(result.val.params) = op.nargs
    /\ op.kind = "finish_call" =>
         /\ result.val.node = "Call"
         /\ Len(result.val.arguments) = op.nargs
         /\ result.val.paren.type = "RIGHT_PAREN"

(* C14 for argument lists alone *)
C14_ArgumentCap ==
  (pc \in {"returned", "failed"} /\ op.kind = "finish_call") =>
    /\ ListCapReported <=> op.nargs > MaxListEntries
    /\ pc = "returned"
    /\ result.val.node = "Call"
    /\ Len(result.val.arguments) = op.nargs

(***************************************************************************)
(* SpecEnv: a caller of the Environment class.  Frames are constructed     *)
(* with Environment(parent) on top of the global frame, up to MaxFrames    *)
(* frames; define is called on any of them with the name a, get and        *)
(* assign with a and with clock, the name the Interpreter binds in its     *)
(* globals.                                                                *)
(***************************************************************************)
MaxFrames == 3

EnvDefined == {NameA}
EnvNames == EnvDefined \cup {NameClock}
EnvValues == {Num(1), Str(NameX)}

InitEnv ==
  /\ scanner = NewScanner(NewLox, << >>)
  /\ scan_pc = "idle"
  /\ pc = "caller"
  /\ lox = NewLox
  /\ interpreter = NewInterpreter
  /\ resolver = NewVariableResolver(NewLox, NewInterpreter)
  /\ line = << >>
  /\ nlines = 0
  /\ op = NoOp
  /\ result = NoResult
  /\ nops = 0
  /\ parser = NewParser(NewLox, << >>)
  /\ parsed = << >>

(* Environment(parent): a new frame on top of an existing one *)
NewEnvironment ==
  /\ pc = "caller"
  /\ Len(interpreter.heap) < MaxFrames
  /\ \E parent \in 1..Len(interpreter.heap) :
       /\ interpreter' = [interpreter EXCEPT
                            !.heap = Append(@, Environment(parent))]
       /\ op' = [kind |-> "Environment", env |-> parent, name |-> << >>,
                 value |-> None]
  /\ result' = NoResult
  /\ UNCHANGED << scanner, scan_pc, lox, resolver, pc, line, nlines, nops,
                  parser, parsed >>

(* env.define(name, value) *)
CallDefine ==
  /\ pc = "caller"
  /\ \E e \in 1..Len(interpreter.heap), name \in EnvDefined,
        value \in EnvValues :
       /\ interpreter' = [interpreter EXCEPT
                            !.heap = Environment_define(@, e, name, value)]
       /\ op' = [kind |-> "define", env |-> e, name |-> name, value |-> value]
  /\ result' = [NoResult EXCEPT !.st = "ok"]
  /\ UNCHANGED << scanner, scan_pc, lox, resolver, pc, line, nlines, nops,
                  parser, parsed >>

(* env.get(token) *)
CallGet ==
  /\ pc = "caller"
  /\ \E e \in 1..Len(interpreter.heap), name \in EnvNames :
       LET r == Environment_get(interpreter.heap, e, Ident(name)) IN
       /\ op' = [kind |-> "get", env |-> e, name |-> name, value |-> None]
       /\ result' = IF r.st = "ok"
                    THEN [NoResult EXCEPT !.st = "ok", !.val = r.val]
                    ELSE [NoResult EXCEPT !.st = r.st, !.err = r.err]
  /\ UNCHANGED << scanner, scan_pc, lox, interpreter, resolver, pc, line,
                  nlines, nops, parser, parsed >>

(* env.assign(token, value) *)
CallAssign ==
  /\ pc = "caller"
  /\ \E e \in 1..Len(interpreter.heap), name \in EnvNames, value \in EnvValues :
       LET r == Environment_assign(interpreter.heap, e, Ident(name), value) IN
       /\ interpreter' = [interpreter EXCEPT !.heap = r.heap]
       /\ op' = [kind |-> "assign", env |-> e, name |-> name, value |-> value]
       /\ result' = IF r.st = "ok"
                    THEN [NoResult EXCEPT !.st = "ok"]
                    ELSE [NoResult EXCEPT !.st = r.st, !.err = r.err]
  /\ UNCHANGED << scanner, scan_pc, lox, resolver, pc, line, nlines, nops,
                  parser, parsed >>

NextEnv == NewEnvironment \/ CallDefine \/ CallGet \/ CallAssign

SpecEnv == InitEnv /\ [][NextEnv]_vars

(* the frames of the parent chain of e, e included *)
RECURSIVE ParentChain(_, _)
ParentChain(heap, e) ==
  IF e = 0 THEN {} ELSE {e} \cup ParentChain(heap, heap[e].parent)

(* the frames of the chain of e that bind name; a frame is always newer   *)
(* than its parent, so the nearest of them is the one with the largest    *)
(* number                                                                  *)
Binders(heap, e, name) ==
  {f \in ParentChain(heap, e) : name \in DOMAIN heap[f].values}

Nearest(frames) == CHOOSE f \in frames : \A g \in frames : g <= f

(* frame f of after is frame f of before with name bound to value *)
Rebound(before, after, f, name, value) ==
  /\ after[f].parent = before[f].parent
  /\ DOMAIN after[f].values = DOMAIN before[f].values \cup {name}
  /\ after[f].values[name] = value
  /\ \A other \in DOMAIN before[f].values \ {name} :
       after[f].values[other] = before[f].values[other]

OnlyFrameChanged(before, after, f) ==
  /\ Len(after) = Len(before)
  /\ \A g \in 1..Len(before) : g # f => after[g] = before[g]

UndefinedVariable(name) ==
  /\ result'.st = "RuntimeError"
  /\ result'.err.token = Ident(name)
  /\ result'.err.message = << "Undefined variable '", name, "'." >>

(* C15: define(name, v) changes only the frame it is called on; assign    *)
(* overwrites the binding in the nearest frame of the parent chain that   *)
(* binds the name and changes no other frame; when no frame of the chain  *)
(* binds the name, get and assign raise the Undefined variable runtime    *)
(* error carrying the token and assign leaves every frame unchanged; get  *)
(* returns the value of the nearest binding.                               *)
C15_EnvironmentStep ==
  LET before == interpreter.heap
      after == interpreter'.heap
      e == op'.env
      name == op'.name
      bound == Binders(before, e, name)
  IN
  /\ op'.kind = "define" =>
       /\ Rebound(before, after, e, name, op'.value)
       /\ OnlyFrameChanged(before, after, e)
       /\ result'.st = "ok"
  /\ (op'.kind = "assign" /\ bound # {}) =>
       /\ Rebound(before, after, Nearest(bound), name, op'.value)
       /\ DOMAIN after[Nearest(bound)].values
            = DOMAIN before[Nearest(bound)].values
       /\ OnlyFrameChanged(before, after, Nearest(bound))
       /\ result'.st = "ok"
  /\ (op'.kind = "assign" /\ bound = {}) =>
       /\ UndefinedVariable(name)
       /\ after = before
  /\ (op'.kind = "get" /\ bound # {}) =>
       /\ result'.st = "ok"
       /\ result'.val = before[Nearest(bound)].values[name]
       /\ after = before
  /\ (op'.kind = "get" /\ bound = {}) =>
       /\ UndefinedVariable(name)
       /\ after = before

C15_Environment == [][C15_EnvironmentStep]_vars

(* an assign on a frame two parent links below the binding frame has      *)
(* overwritten the binding there and bound nothing on the way             *)
C15_Witness ==
  /\ op.kind = "assign"
  /\ result.st = "ok"
  /\ LET heap == interpreter.heap
         e == op.env
     IN /\ heap[e].parent # 0
        /\ heap[heap[e].parent].parent = 1
        /\ op.name \notin DOMAIN heap[e].values
        /\ op.name \notin DOMAIN heap[heap[e].parent].values
        /\ heap[1].values[op.name] = op.value

(* the statements Lox.run hands to interpret in a step *)
StatementsRun == parse(lox, line').node

(* the outcome of the first k of the statements of a step, executed in    *)
(* order from the interpreter of the step's start                          *)
AfterStatements(k) ==
  execute_statements([interpreter EXCEPT !.ninterpret = @ + 1],
                     SubSeq(StatementsRun, 1, k))

(* the k-th top-level statement of the step raises a runtime error, the   *)
(* statements before it do not                                             *)
FailurePoint(k) ==
  /\ k \in 1..Len(StatementsRun)
  /\ AfterStatements(k - 1).st = "ok"
  /\ AfterStatements(k).st = "RuntimeError"

IsPrefix(s, t) == Len(s) <= Len(t) /\ SubSeq(t, 1, Len(s)) = s

(* C16: when executing the k-th top-level statement of a run raises a     *)
(* runtime error, the interpreter is left as it was at the point of       *)
(* failure: statements 1..k-1 have executed completely and their output   *)
(* is emitted in order, no statement after the failure point is executed, *)
(* the error is reported to the sink exactly once, has_runtime_error is   *)
(* set and has_error is not.                                               *)
C16_RuntimeErrorStep ==
  (RunStep /\ ~CompileErrorReported /\ parse(lox, line').st = "ok") =>
    \A k \in 1..Len(StatementsRun) : FailurePoint(k) =>
      LET before == AfterStatements(k - 1)
          failed == AfterStatements(k)
      IN /\ IsPrefix(before.I.out, interpreter'.out)
         /\ interpreter'.out = failed.I.out
         /\ interpreter'.nexec = failed.I.nexec
         /\ interpreter' = failed.I
         /\ lox'.diags = Append(lox.diags,
                                [line |-> failed.err.token.line,
                                 message |-> failed.err.message])
         /\ lox'.has_runtime_error
         /\ lox'.has_error = lox.has_error
         /\ ~lox'.has_error
         /\ pc' \in {"ran", "exit70"}
         /\ line' = AbortProgram =>
              /\ k = 2
              /\ interpreter'.out = interpreter.out \o << << "1" >>, << "2" >> >>
              /\ interpreter'.nexec = interpreter.nexec + 4
              /\ interpreter'.env = interpreter.env
              /\ failed.err.message = << "Operand must be a number." >>

C16_RuntimeErrorAborts == [][C16_RuntimeErrorStep]_vars

(* the second REPL line was print 1; { print 2; -"s"; print 3; } print 4; *)
(* and ended in its runtime error after printing 1 and 2                   *)
C16_Witness ==
  /\ pc = "ran"
  /\ nlines = 2
  /\ line = AbortProgram
  /\ lox.has_runtime_error
  /\ ~lox.has_error
  /\ Len(interpreter.out) >= 2
  /\ interpreter.out[Len(interpreter.out)] = << "2" >>
  /\ interpreter.out[Len(interpreter.out) - 1] = << "1" >>

(* the global frame of the interpreter before and after a step *)
Globals == interpreter.heap[interpreter.globals].values
GlobalsAfter == interpreter'.heap[interpreter'.globals].values

NameG == << "g" >>

(* a step in which the REPL loop ran the line line' *)
ReplStep == pc = "prompt" /\ RunStep

(* what the lines that declare and read the global g do in a REPL step,   *)
(* whatever the earlier lines were and however they ended                  *)
LinesKeepGlobals ==
  /\ (ReplStep /\ line' \in {DefineProgram, ReadProgram, IncrementProgram,
                             AbortProgram, ParseErrorProgram,
                             ScanErrorProgram, ArityProgram}) =>
       /\ pc' = "ran"
       /\ DOMAIN Globals \subseteq DOMAIN GlobalsAfter
       /\ \A name \in DOMAIN Globals \ {NameG, << "f" >>} :
            GlobalsAfter[name] = Globals[name]
  /\ (ReplStep /\ line' = DefineProgram) =>
       /\ GlobalsAfter[NameG] = Num(Scale)
       /\ interpreter'.out = Append(interpreter.out, << "1" >>)
  /\ (ReplStep /\ line' = ReadProgram /\ NameG \in DOMAIN Globals) =>
       /\ GlobalsAfter[NameG] = Globals[NameG]
       /\ interpreter'.out = Append(interpreter.out, stringify(Globals[NameG]))
       /\ lox'.diags = lox.diags
  /\ (ReplStep /\ line' = IncrementProgram /\ NameG \in DOMAIN Globals) =>
       /\ GlobalsAfter[NameG] = Num(Globals[NameG].n + Scale)
       /\ lox'.diags = lox.diags
  /\ (ReplStep /\ line' \in {AbortProgram, ParseErrorProgram,
                             ScanErrorProgram}) =>
       GlobalsAfter = Globals

(* C17: across the lines of a REPL session on one Lox instance, every     *)
(* global defined by an earlier line keeps its last assigned value in the *)
(* later lines, and a line that ended in a compile error or a runtime     *)
(* error does not keep a later line from being executed; in particular    *)
(* the line g = 2; after a line that declared g leaves g with the value 2 *)
(* and the loop goes on to the next line.                                  *)
C17_PersistentGlobals ==
  [][/\ LinesKeepGlobals
     /\ (ReplStep /\ line' = AssignProgram /\ NameG \in DOMAIN Globals) =>
          /\ pc' = "ran"
          /\ GlobalsAfter[NameG] = Num(2 * Scale)]_vars

(* C17, for globals that are only declared (var) and read: their values   *)
(* persist across lines and across lines that ended in an error.          *)
C17_DeclaredGlobalsPersist == [][LinesKeepGlobals]_vars

(***************************************************************************)
(* SpecEval: a caller has the Interpreter evaluate the binary expression   *)
(* left operator right on two literals, for every pair of the values       *)
(* below and the operators == and !=.                                      *)
(***************************************************************************)
EvalValues ==
  {None, Bool(TRUE), Bool(FALSE), Num(0), Num(Scale), Num(2 * Scale),
   Str(<< >>), Str(<< "1" >>), Str(NameA)}

EvalOperators ==
  {Token("EQUAL_EQUAL", << "=", "=" >>, None, 1),
   Token("BANG_EQUAL", << "!", "=" >>, None, 1)}

InitEval ==
  /\ scanner = NewScanner(NewLox, << >>)
  /\ scan_pc = "idle"
  /\ pc = "caller"
  /\ lox = NewLox
  /\ interpreter = NewInterpreter
  /\ resolver = NewVariableResolver(NewLox, NewInterpreter)
  /\ line = << >>
  /\ nlines = 0
  /\ op = NoOp
  /\ result = NoResult
  /\ nops = 0
  /\ parser = NewParser(NewLox, << >>)
  /\ parsed = << >>

(* interpreter.evaluate(Binary(Literal(left), operator, Literal(right))) *)
EvaluateBinary ==
  /\ pc = "caller"
  /\ \E left \in EvalValues, right \in EvalValues, operator \in EvalOperators :
       \E r \in {evaluate(interpreter,
                          Binary(Literal(left), operator, Literal(right)))} :
       /\ op' = [kind |-> operator.type, left |-> left, right |-> right]
       /\ interpreter' = r.I
       /\ result' = Outcome(r)
  /\ UNCHANGED << scanner, scan_pc, lox, resolver, pc, line, nlines, nops,
                  parser, parsed >>

NextEval == EvaluateBinary

SpecEval == InitEval /\ [][NextEval]_vars

(* the Lox type of a runtime value *)
LoxType(value) == IF value.t = "float" THEN "number" ELSE value.t

(* equality without coercion *)
SameValue(a, b) == LoxType(a) = LoxType(b) /\ a = b

(* C18: == on two values of nil, boolean, number and string is false when *)
(* the types differ (true == 1 and false == 0 are false, a number never   *)
(* equals a string) and is true exactly when the values are the same when *)
(* the types agree; != is its negation.                                    *)
C18_EqualityWithoutCoercion ==
  op.kind \in {"EQUAL_EQUAL", "BANG_EQUAL"} =>
    /\ result.st = "ok"
    /\ op.kind = "EQUAL_EQUAL" =>
         result.val = Bool(SameValue(op.left, op.right))
    /\ op.kind = "BANG_EQUAL" =>
         result.val = Bool(~SameValue(op.left, op.right))

(* the values a boolean is equal to in Python: True == 1.0, False == 0.0  *)
BoolAndItsNumber(a, b) ==
  \/ a.t = "bool" /\ b.t = "float" /\ b.n = (IF a.b THEN Scale ELSE 0)
  \/ b.t = "bool" /\ a.t = "float" /\ a.n = (IF b.b THEN Scale ELSE 0)

(* C18, apart from a boolean against the number 1 or 0: every other pair  *)
(* compares as the claim says.                                             *)
C18_EqualityApartFromBool ==
  (op.kind \in {"EQUAL_EQUAL", "BANG_EQUAL"}
     /\ ~BoolAndItsNumber(op.left, op.right)) =>
    /\ result.st = "ok"
    /\ op.kind = "EQUAL_EQUAL" =>
         result.val = Bool(SameValue(op.left, op.right))
    /\ op.kind = "BANG_EQUAL" =>
         result.val = Bool(~SameValue(op.left, op.right))

(***************************************************************************)
(* SpecAnalysed: a driver that parses a program, resolves it with the      *)
(* VariableResolver and, when the resolver raised nothing and reported     *)
(* nothing, has the Interpreter interpret it.  The programs are made of    *)
(* up to MaxSnippets of the pieces below, all on one line or one piece per *)
(* line.                                                                   *)
(***************************************************************************)
(* fun f(a) {                                                           *)
SnipFunOpen ==
  << "f", "u", "n", " ", "f", "(", "a", ")", " ", "{" >>

(* f(1);                                                                *)
SnipCall ==
  << "f", "(", "1", ")", ";" >>

AnalysedSnippets ==
  {SnipVar, SnipSelf, SnipRead, SnipOpen, SnipClose, SnipFunOpen, SnipCall}

(* the pieces of a program, one per line *)
RECURSIVE JoinLines(_)
JoinLines(pieces) ==
  IF pieces = << >> THEN << >>
  ELSE pieces[1] \o << "\n" >> \o JoinLines(Tail(pieces))

AnalysedSources ==
  {Join(pieces) : pieces \in SeqsUpTo(AnalysedSnippets, MaxSnippets)}
    \cup {JoinLines(pieces) : pieces \in SeqsUpTo(AnalysedSnippets, MaxSnippets)}

(* statements = parser.parse(lox, source) *)
ParseProgram ==
  /\ pc = "source"
  /\ \E source \in AnalysedSources :
       \E statements \in {parse(lox, source)} :
       /\ line' = source
       /\ lox' = statements.p.lox
       /\ resolver' = [resolver EXCEPT !.lox = statements.p.lox]
       /\ pc' = IF statements.st # "ok" THEN "crashed"
                ELSE IF statements.p.lox.has_error THEN "rejected"
                ELSE "parsed"
  /\ UNCHANGED << scanner, scan_pc, interpreter, nlines, op, result, nops,
                  parser, parsed >>

(* interpreter.interpret(statements), the interpreter being the one the    *)
(* resolver recorded its distances in                                      *)
InterpretResolved ==
  /\ pc = "resolved"
  /\ ~lox.has_error
  /\ \E r \in {interpret(lox, interpreter, parse(NewLox, line).node)} :
     /\ lox' = r.lox
     /\ interpreter' = r.I
     /\ result' = [NoResult EXCEPT !.st = r.st, !.exc = r.exc]
     /\ pc' = IF r.st = "ok" THEN "interpreted" ELSE "crashed"
  /\ op' = [NoOp EXCEPT !.kind = "interpret"]
  /\ UNCHANGED << scanner, scan_pc, resolver, line, nlines, nops,
                  parser, parsed >>

NextAnalysed == ParseProgram \/ Resolve \/ InterpretResolved

SpecAnalysed == InitResolve /\ [][NextAnalysed]_vars

(* C19: for every program the resolver accepts, the lookups the            *)
(* interpreter makes with the recorded distances never fail: get_at and    *)
(* assign_at find the environment and the name in it, so interpreting the  *)
(* program raises neither KeyError nor ValueError (nor anything else but   *)
(* the runtime errors interpret reports).                                  *)
C19_ResolvedLookupsNeverFail ==
  op.kind = "interpret" =>
    /\ result.exc \notin {"KeyError", "ValueError"}
    /\ pc = "interpreted"

(* C19 for the programs written one piece per line, in which no two nodes  *)
(* are equal                                                               *)
C19_ResolvedLookupsOnDistinctLines ==
  (op.kind = "interpret" /\ \E i \in 1..Len(line) : line[i] = "\n") =>
    /\ result.exc \notin {"KeyError", "ValueError"}
    /\ pc = "interpreted"

(* fun f(a) { print a; } f(1); one piece per line, was resolved with a     *)
(* distance recorded for the a of the body, and interpreted: it printed 1  *)
C19_DistinctLinesRun ==
  /\ op.kind = "interpret"
  /\ line = JoinLines(<< SnipFunOpen, SnipRead, SnipClose, SnipCall >>)
  /\ interpreter.locals # EmptyDict
  /\ interpreter.out = << << "1" >> >>

(***************************************************************************)
(* SpecLocals: a caller of Interpreter.resolve and of the lookup of a      *)
(* variable.  The caller holds the node objects of ResolvedNodes, one      *)
(* object per index: two Variable nodes for the name a on line 1, one on   *)
(* line 2, and an Assign node.  The interpreter is inside two nested       *)
(* blocks, each frame binding a to a value that names the frame.           *)
(***************************************************************************)
MaxDepth == 2

IdentOn(name, l) == Token("IDENTIFIER", name, None, l)

ResolvedNodes ==
  << Variable(IdentOn(NameA, 1)), Variable(IdentOn(NameA, 1)),
     Variable(IdentOn(NameA, 2)),
     Assign(IdentOn(NameA, 1), Literal(Num(2 * Scale))) >>

InitLocals ==
  /\ scanner = NewScanner(NewLox, << >>)
  /\ scan_pc = "idle"
  /\ pc = "caller"
  /\ lox = NewLox
  /\ interpreter =
       [NewInterpreter EXCEPT
          !.heap = << [@[1] EXCEPT !.values = (NameA :> Num(0)) @@ @],
                      [parent |-> 1, values |-> (NameA :> Num(Scale))],
                      [parent |-> 2, values |-> (NameA :> Num(2 * Scale))] >>,
          !.env = 3]
  /\ resolver = NewVariableResolver(NewLox, NewInterpreter)
  /\ line = << >>
  /\ nlines = 0
  /\ op = NoOp
  /\ result = NoResult
  /\ nops = 0
  /\ parser = NewParser(NewLox, << >>)
  /\ parsed = << >>

(* interpreter.resolve(node, depth) *)
RecordDistance ==
  /\ pc = "caller"
  /\ \E i \in 1..Len(ResolvedNodes), depth \in 0..MaxDepth :
       \E r \in {Interpreter_resolve(interpreter, ResolvedNodes[i], depth)} :
       /\ op' = [kind |-> "resolve", node |-> i, depth |-> depth]
       /\ interpreter' = r.I
       /\ result' = Outcome(r)
  /\ UNCHANGED << scanner, scan_pc, lox, resolver, pc, line, nlines, nops,
                  parser, parsed >>

(* interpreter.evaluate(node) for a Variable node *)
EvaluateVariable ==
  /\ pc = "caller"
  /\ \E i \in 1..Len(ResolvedNodes) :
       /\ ResolvedNodes[i].node = "Variable"
       /\ \E r \in {evaluate(interpreter, ResolvedNodes[i])} :
            /\ op' = [kind |-> "evaluate", node |-> i, depth |-> 0]
            /\ interpreter' = r.I
            /\ result' = Outcome(r)
  /\ UNCHANGED << scanner, scan_pc, lox, resolver, pc, line, nlines, nops,
                  parser, parsed >>

NextLocals == RecordDistance \/ EvaluateVariable

SpecLocals == InitLocals /\ [][NextLocals]_vars

(* what Interpreter.locals holds for a node: its distance, or -1 for none *)
EntryOf(I, node) == IF node \in DOMAIN I.locals THEN I.locals[node] ELSE 0 - 1

(* recording a distance for the object i leaves what the table returns    *)
(* for each of the objects of others as it was                             *)
KeepsEntries(i, others) ==
  \A j \in others \ {i} :
    EntryOf(interpreter', ResolvedNodes[j]) = EntryOf(interpreter, ResolvedNodes[j])

VariableObjects == {i \in 1..Len(ResolvedNodes) : ResolvedNodes[i].node = "Variable"}

(* C20: the scope-distance table is keyed by node identity: recording a   *)
(* distance for one of two distinct variable nodes with the same name on  *)
(* the same line never overwrites the entry of the other and is never     *)
(* returned for the other.                                                 *)
C20_KeyedByIdentity ==
  [][(op'.kind = "resolve" /\ op'.node \in VariableObjects) =>
       /\ result'.st = "ok"
       /\ EntryOf(interpreter', ResolvedNodes[op'.node]) = op'.depth
       /\ KeepsEntries(op'.node, VariableObjects)]_vars

(* C20: recording a distance for an Assign node succeeds.                  *)
C20_AssignRecorded ==
  [][(op'.kind = "resolve" /\ ResolvedNodes[op'.node].node = "Assign") =>
       /\ result'.st = "ok"
       /\ EntryOf(interpreter', ResolvedNodes[op'.node]) = op'.depth]_vars

(* C20 for variable nodes that differ (here in their line): each keeps    *)
(* its own entry, and evaluating a node reads the frame at its distance.  *)
C20_UnequalNodesKeepEntries ==
  [][/\ (op'.kind = "resolve" /\ op'.node \in VariableObjects) =>
          /\ result'.st = "ok"
          /\ EntryOf(interpreter', ResolvedNodes[op'.node]) = op'.depth
          /\ KeepsEntries(op'.node,
                          {j \in VariableObjects :
                             ResolvedNodes[j] # ResolvedNodes[op'.node]})
     /\ op'.kind = "evaluate" =>
          /\ interpreter' = interpreter
          /\ result'.st = "ok"
          /\ LET d == EntryOf(interpreter, ResolvedNodes[op'.node]) IN
             result'.val = Num((IF d < 0 THEN 0 ELSE MaxDepth - d) * Scale)]_vars

(***************************************************************************)
(* SpecFrames: a driver calls Lox.run, up to MaxRuns times on one Lox,     *)
(* with programs that enter and leave blocks and calls normally, by a      *)
(* return and by a runtime error.  The globals also hold the classes of    *)
(* ObjGlobals, built by their constructors.                                *)
(***************************************************************************)
MaxRuns == 3

(* fun f() { while (true) { if (true) { return 1; } } print 9; } print  *)
(* f(); var x = 2; print x;                                             *)
FrameReturn ==
  << "f", "u", "n", " ", "f", "(", ")", " ", "{", " ", "w", "h", "i", "l",
     "e", " ", "(", "t", "r", "u", "e", ")", " ", "{", " ", "i", "f", " ",
     "(", "t", "r", "u", "e", ")", " ", "{", " ", "r", "e", "t", "u", "r",
     "n", " ", "1", ";", " ", "}", " ", "}", " ", "p", "r", "i", "n", "t",
     " ", "9", ";", " ", "}", " ", "p", "r", "i", "n", "t", " ", "f", "(",
     ")", ";", " ", "v", "a", "r", " ", "x", " ", "=", " ", "2", ";", " ",
     "p", "r", "i", "n", "t", " ", "x", ";" >>

(* fun g() { { return 1; } print 8; } fun h() { print g(); print 3;     *)
(* return; print 9; } print h(); print 4;                               *)
FrameNested ==
  << "f", "u", "n", " ", "g", "(", ")", " ", "{", " ", "{", " ", "r", "e",
     "t", "u", "r", "n", " ", "1", ";", " ", "}", " ", "p", "r", "i", "n",
     "t", " ", "8", ";", " ", "}", " ", "f", "u", "n", " ", "h", "(", ")",
     " ", "{", " ", "p", "r", "i", "n", "t", " ", "g", "(", ")", ";", " ",
     "p", "r", "i", "n", "t", " ", "3", ";", " ", "r", "e", "t", "u", "r",
     "n", ";", " ", "p", "r", "i", "n", "t", " ", "9", ";", " ", "}", " ",
     "p", "r", "i", "n", "t", " ", "h", "(", ")", ";", " ", "p", "r", "i",
     "n", "t", " ", "4", ";" >>

(* fun e() { { print 1; -"s"; } } e(); print 9;                         *)
FrameError ==
  << "f", "u", "n", " ", "e", "(", ")", " ", "{", " ", "{", " ", "p", "r",
     "i", "n", "t", " ", "1", ";", " ", "-", "\"", "s", "\"", ";", " ", "}",
     " ", "}", " ", "e", "(", ")", ";", " ", "p", "r", "i", "n", "t", " ",
     "9", ";" >>

(* { var b = 1; { print 7; } } var z = 3; print z;                      *)
FrameBlock ==
  << "{", " ", "v", "a", "r", " ", "b", " ", "=", " ", "1", ";", " ", "{",
     " ", "p", "r", "i", "n", "t", " ", "7", ";", " ", "}", " ", "}", " ",
     "v", "a", "r", " ", "z", " ", "=", " ", "3", ";", " ", "p", "r", "i",
     "n", "t", " ", "z", ";" >>

(* { { return; } }                                                      *)
FrameEscape ==
  << "{", " ", "{", " ", "r", "e", "t", "u", "r", "n", ";", " ", "}", " ",
     "}" >>

(* var o = InitRet(); var q = 6; print q;                               *)
FrameClass ==
  << "v", "a", "r", " ", "o", " ", "=", " ", "I", "n", "i", "t", "R", "e",
     "t", "(", ")", ";", " ", "v", "a", "r", " ", "q", " ", "=", " ", "6",
     ";", " ", "p", "r", "i", "n", "t", " ", "q", ";" >>

(* var y = 5; print y;                                                  *)
FrameDefine ==
  << "v", "a", "r", " ", "y", " ", "=", " ", "5", ";", " ", "p", "r", "i",
     "n", "t", " ", "y", ";" >>

FrameSources ==
  {FrameReturn, FrameNested, FrameError, FrameBlock, FrameEscape, FrameClass,
   FrameDefine}

InitFrames ==
  /\ scanner = NewScanner(NewLox, << >>)
  /\ scan_pc = "idle"
  /\ pc = "driver"
  /\ lox = NewLox
  /\ interpreter = [NewInterpreter EXCEPT !.heap[1].values = ObjGlobals @@ @]
  /\ resolver = NewVariableResolver(NewLox, NewInterpreter)
  /\ line = << >>
  /\ nlines = 0
  /\ op = NoOp
  /\ result = NoResult
  /\ nops = 0
  /\ parser = NewParser(NewLox, << >>)
  /\ parsed = << >>

(* lox.run(source); the driver goes on after a run that raised *)
RunProgram ==
  /\ pc = "driver"
  /\ nlines < MaxRuns
  /\ \E source \in FrameSources :
       \E r \in {Lox_run(lox, interpreter, source)} :
       /\ line' = source
       /\ lox' = r.lox
       /\ interpreter' = r.I
       /\ result' = [NoResult EXCEPT !.st = r.st, !.exc = r.exc]
  /\ nlines' = nlines + 1
  /\ UNCHANGED << scanner, scan_pc, resolver, pc, op, nops, parser, parsed >>

NextFrames == RunProgram

SpecFrames == InitFrames /\ [][NextFrames]_vars

(* a step in which the driver of SpecFrames ran the program line' *)
FrameStep == pc = "driver" /\ nlines' = nlines + 1

Bound(values, name, value) == name \in DOMAIN values /\ values[name] = value

(* C21: when execute_block or a call finishes, normally, by a return or   *)
(* by a runtime error, the current environment is the one it was before:  *)
(* after every run, also one that ended in a runtime error or let a       *)
(* Return escape, the current environment is the global environment, and  *)
(* a top-level var that follows a block or a call that ended by a return  *)
(* is defined in the global environment.                                   *)
C21_EnvironmentStep ==
  FrameStep =>
    /\ interpreter.env = interpreter.globals
    /\ interpreter'.globals = interpreter.globals
    /\ interpreter'.env = interpreter.env
    /\ \A e \in 2..Len(interpreter.heap) :
         interpreter'.heap[e] = interpreter.heap[e]
    /\ line' = FrameReturn => Bound(GlobalsAfter, NameX, Num(2 * Scale))
    /\ line' = FrameBlock =>
         /\ Bound(GlobalsAfter, << "z" >>, Num(3 * Scale))
         /\ NameB \notin DOMAIN GlobalsAfter
    /\ line' = FrameClass => Bound(GlobalsAfter, << "q" >>, Num(6 * Scale))
    /\ line' = FrameDefine => Bound(GlobalsAfter, << "y" >>, Num(5 * Scale))
    /\ line' = FrameError =>
         /\ lox'.has_runtime_error
         /\ result'.st = "ok"
    /\ line' = FrameEscape => result'.exc = "Return"

C21_EnvironmentRestored == [][C21_EnvironmentStep]_vars

(* var y = 5; print y; was run after a program whose call ended by a      *)
(* return from inside a while, an if and a block, and after one whose     *)
(* call ended by a runtime error inside a block: y is a global             *)
C21_Witness ==
  /\ nlines = 3
  /\ line = FrameDefine
  /\ lox.has_runtime_error
  /\ Bound(Globals, NameX, Num(2 * Scale))
  /\ Bound(Globals, << "y" >>, Num(5 * Scale))
  /\ interpreter.env = interpreter.globals
  /\ Len(interpreter.heap) > 4

Printed(texts) == interpreter'.out = interpreter.out \o texts

(* C22: a return at any nesting depth of blocks, ifs and while loops in a *)
(* function body ends exactly the innermost active call: the rest of that *)
(* body is skipped, the call expression has the returned value (nil when  *)
(* none is given), and the enclosing call and the top level go on from    *)
(* that point.                                                             *)
C22_ReturnStep ==
  FrameStep =>
    /\ line' = FrameReturn =>
         /\ Printed(<< << "1" >>, << "2" >> >>)
         /\ interpreter'.nexec = interpreter.nexec + 9
    /\ line' = FrameNested =>
         /\ Printed(<< << "1" >>, << "3" >>, << "n", "i", "l" >>, << "4" >> >>)
         /\ interpreter'.nexec = interpreter.nexec + 9
    /\ line' = FrameClass =>
         Printed(<< INIT, << "6" >> >>)
    /\ line' \in {FrameReturn, FrameNested, FrameClass} =>
         /\ result'.st = "ok"
         /\ lox'.diags = lox.diags

C22_ReturnUnwindsOneCall == [][C22_ReturnStep]_vars

(* the program with the calls g inside h was run: g returned 1 from a     *)
(* block, h printed it, went on, returned without a value, and the top    *)
(* level printed nil and 4                                                 *)
C22_Witness ==
  /\ nlines >= 1
  /\ line = FrameNested
  /\ result.st = "ok"
  /\ Len(interpreter.out) >= 4
  /\ SubSeq(interpreter.out, Len(interpreter.out) - 3, Len(interpreter.out))
       = << << "1" >>, << "3" >>, << "n", "i", "l" >>, << "4" >> >>

(***************************************************************************)
(* SpecScopes: a caller of the VariableResolver.  It enters and leaves     *)
(* scopes (with resolver.scope(): ...), declares and defines names, and    *)
(* resolves declaration nodes, in any order: up to MaxScopes scopes are    *)
(* open at a time and up to MaxDecls declarations are made.  The name      *)
(* token of the k-th declaration is on line k + 1, the tokens inside the   *)
(* declared functions and blocks are on lines 11 to 13.                    *)
(***************************************************************************)
MaxScopes == 2
MaxDecls == 2

ScopeNames == {NameA, NameB}
DeclKinds == {"var", "params", "body", "class", "block"}

(* the declaration nodes the caller resolves:                              *)
(*   var:    var n;                                                        *)
(*   params: fun n(a, a) { { var a; } }                                    *)
(*   body:   fun n(a) { var a; }                                           *)
(*   class:  class n { init(b, b) { } }                                    *)
(*   block:  { var n; { var n; } var n; }                                  *)
Declaration(kind, name, l) ==
  CASE kind = "var" -> VarDecl(IdentOn(name, l), NoneNode)
    [] kind = "params" ->
         FunctionDecl(IdentOn(name, l),
                      << IdentOn(NameA, 11), IdentOn(NameA, 12) >>,
                      << Block(<< VarDecl(IdentOn(NameA, 13), NoneNode) >>) >>)
    [] kind = "body" ->
         FunctionDecl(IdentOn(name, l), << IdentOn(NameA, 11) >>,
                      << VarDecl(IdentOn(NameA, 12), NoneNode) >>)
    [] kind = "class" ->
         Class(IdentOn(name, l), NoneNode,
               << FunctionDecl(IdentOn(INIT, 11),
                               << IdentOn(NameB, 12), IdentOn(NameB, 13) >>,
                               << >>) >>)
    [] kind = "block" ->
         Block(<< VarDecl(IdentOn(name, 11), NoneNode),
                  Block(<< VarDecl(IdentOn(name, 12), NoneNode) >>),
                  VarDecl(IdentOn(name, 13), NoneNode) >>)

InitScopes ==
  /\ scanner = NewScanner(NewLox, << >>)
  /\ scan_pc = "idle"
  /\ pc = "scopes"
  /\ Constructed

(* with resolver.scope(): the entry, self.scopes.append({}) *)
EnterScope ==
  /\ pc = "scopes"
  /\ Len(resolver.scopes) < MaxScopes
  /\ resolver' = push_scope(resolver)
  /\ op' = [kind |-> "enter", decl |-> "", name |-> << >>]
  /\ UNCHANGED << scanner, scan_pc, lox, interpreter, pc, line, nlines,
                  result, nops, parser, parsed >>

(* with resolver.scope(): the exit, self.scopes.pop() *)
LeaveScope ==
  /\ pc = "scopes"
  /\ resolver.scopes # << >>
  /\ resolver' = pop_scope(resolver)
  /\ op' = [kind |-> "leave", decl |-> "", name |-> << >>]
  /\ UNCHANGED << scanner, scan_pc, lox, interpreter, pc, line, nlines,
                  result, nops, parser, parsed >>

(* resolver.declare(name) *)
CallDeclareName ==
  /\ pc = "scopes"
  /\ nops < MaxDecls
  /\ \E name \in ScopeNames :
       /\ resolver' = Resolver_declare(resolver, IdentOn(name, nops + 2))
       /\ op' = [kind |-> "declare", decl |-> "", name |-> name]
  /\ lox' = resolver'.lox
  /\ nops' = nops + 1
  /\ UNCHANGED << scanner, scan_pc, interpreter, pc, line, nlines, result,
                  parser, parsed >>

(* resolver.define(name) *)
CallDefineName ==
  /\ pc = "scopes"
  /\ \E name \in ScopeNames :
       /\ resolver' = Resolver_define(resolver, IdentOn(name, 1))
       /\ op' = [kind |-> "define", decl |-> "", name |-> name]
  /\ UNCHANGED << scanner, scan_pc, lox, interpreter, pc, line, nlines,
                  result, nops, parser, parsed >>

(* resolver.resolve(node) for a declaration node *)
ResolveDeclaration ==
  /\ pc = "scopes"
  /\ nops < MaxDecls
  /\ \E kind \in DeclKinds, name \in ScopeNames :
       \E r \in {resolve(resolver, Declaration(kind, name, nops + 2))} :
       /\ resolver' = r.Z
       /\ lox' = r.Z.lox
       /\ result' = [NoResult EXCEPT !.st = r.st, !.exc = r.exc]
       /\ op' = [kind |-> "resolve", decl |-> kind, name |-> name]
  /\ nops' = nops + 1
  /\ UNCHANGED << scanner, scan_pc, interpreter, pc, line, nlines, parser,
                  parsed >>

NextScopes ==
  \/ EnterScope
  \/ LeaveScope
  \/ CallDeclareName
  \/ CallDefineName
  \/ ResolveDeclaration

SpecScopes == InitScopes /\ [][NextScopes]_vars

(* the diagnostic of a duplicate declaration at the token *)
DuplicateReport(token) ==
  [line |-> token.line, where |-> << " at '", token.lexeme, "'" >>,
   message |-> << "Already a variable with this name in this scope." >>]

(* the innermost scope has an entry for the name *)
InInnermost(name) ==
  /\ resolver.scopes # << >>
  /\ name \in DOMAIN resolver.scopes[Len(resolver.scopes)]

(* an enclosing scope, but not the innermost one, has an entry for the name *)
OnlyEnclosing(name) ==
  /\ ~InInnermost(name)
  /\ \E i \in 1..Len(resolver.scopes) : name \in DOMAIN resolver.scopes[i]

(* what a declaration of the name on the line reports *)
ReportsOf(name, l) ==
  IF InInnermost(name) THEN << DuplicateReport(IdentOn(name, l)) >>
  ELSE << >>

(* the reports made inside the declared function, class or block, which    *)
(* open scopes of their own: the second parameter a of (a, a); var a in    *)
(* the body of a function with the parameter a; the second parameter b of  *)
(* init(b, b); the second var n of the block's own scope.  var a in a      *)
(* block of the body, and var n in the inner block, shadow and report      *)
(* nothing.                                                                *)
ReportsInside(kind, name) ==
  CASE kind = "var" -> << >>
    [] kind = "params" -> << DuplicateReport(IdentOn(NameA, 12)) >>
    [] kind = "body" -> << DuplicateReport(IdentOn(NameA, 12)) >>
    [] kind = "class" -> << DuplicateReport(IdentOn(NameB, 13)) >>
    [] kind = "block" -> << DuplicateReport(IdentOn(name, 13)) >>

(* C23: a declaration of a name, be it declare(name) or the resolution of  *)
(* a variable, function or class declaration, reports "Already a variable  *)
(* with this name in this scope." at the declared name exactly when the    *)
(* innermost scope already has an entry for the name; parameters and the   *)
(* declarations of a body are reported against the scope of their          *)
(* function or block alone.  A name that only an enclosing scope holds,    *)
(* and any name while the scope stack is empty, is declared without a      *)
(* report; entering or leaving a scope and define report nothing.  A       *)
(* block declares in a scope of its own, whatever the scopes around hold.  *)
C23_DeclareStep ==
  pc = "scopes" =>
    /\ op'.kind \in {"enter", "leave", "define"} =>
         lox'.diags = lox.diags
    /\ op'.kind = "declare" =>
         /\ lox'.diags = lox.diags \o ReportsOf(op'.name, nops + 2)
         /\ resolver.scopes = << >> => lox' = lox /\ resolver' = resolver
         /\ OnlyEnclosing(op'.name) => lox' = lox
         /\ InInnermost(op'.name) => lox'.has_error
    /\ op'.kind = "resolve" =>
         /\ result'.st = "ok"
         /\ Len(resolver'.scopes) = Len(resolver.scopes)
         /\ op'.decl # "block" =>
              /\ lox'.diags = lox.diags \o ReportsOf(op'.name, nops + 2)
                                \o ReportsInside(op'.decl, op'.name)
              /\ resolver.scopes # << >> =>
                   op'.name \in DOMAIN resolver'.scopes[Len(resolver.scopes)]
         /\ op'.decl = "block" =>
              /\ lox'.diags = lox.diags \o ReportsInside(op'.decl, op'.name)
              /\ resolver'.scopes = resolver.scopes
         /\ (op'.decl = "var" /\ ~InInnermost(op'.name)) => lox' = lox

C23_DuplicateDeclaration == [][C23_DeclareStep]_vars

(* two scopes are open and both hold a; two declarations were made, and    *)
(* only the second one, var a on line 3 in the inner scope that already    *)
(* had a, was reported                                                     *)
C23_Witness ==
  /\ pc = "scopes"
  /\ Len(resolver.scopes) = 2
  /\ DOMAIN resolver.scopes[1] = {NameA}
  /\ DOMAIN resolver.scopes[2] = {NameA}
  /\ nops = 2
  /\ op.kind = "resolve" /\ op.decl = "var" /\ op.name = NameA
  /\ lox.diags = << DuplicateReport(IdentOn(NameA, 3)) >>

====
